---------------------------- MODULE Spec2Model ----------------------------
(***************************************************************************)
(* TapHeir: a Taproot inheritance trust (utils/bitcoin.js), its mock       *)
(* oracle (utils/oracle.js) and the React component that drives them       *)
(* (src/App.jsx).                                                          *)
(*                                                                         *)
(* Values.  A JavaScript string is a sequence of one-character strings, a  *)
(* Buffer is a sequence of bytes 0..255.  A call that can throw yields a   *)
(* record with a field threw.                                              *)
(*                                                                         *)
(* The elliptic curve, the hash and the bech32m code of the libraries the  *)
(* program calls (bitcoinjs-lib, tiny-secp256k1, ecpair) are modelled at   *)
(* their interface: the group of the curve is the cyclic group of prime    *)
(* order CurveOrder written additively, the x coordinate of a point P is   *)
(* min(P, -P), SHA-256 is a 32-byte mixing function; bech32m is the real   *)
(* code word by word.                                                      *)
(***************************************************************************)
EXTENDS Integers, Sequences, FiniteSets, TLC

---------------------------------------------------------------------------
(* Characters and strings *)

LowerChars == <<"a","b","c","d","e","f","g","h","i","j","k","l","m",
                "n","o","p","q","r","s","t","u","v","w","x","y","z">>
UpperChars == <<"A","B","C","D","E","F","G","H","I","J","K","L","M",
                "N","O","P","Q","R","S","T","U","V","W","X","Y","Z">>
DigitChars == <<"0","1","2","3","4","5","6","7","8","9">>
HexChars == <<"0","1","2","3","4","5","6","7","8","9","a","b","c","d","e","f">>

Range(s) == {s[i] : i \in 1..Len(s)}

\* Index of c in the sequence s, 0 when absent (String.prototype.indexOf + 1).
IndexOf(s, c) == IF c \in Range(s) THEN CHOOSE i \in 1..Len(s) : s[i] = c ELSE 0

\* The characters of the strings the program handles.
Chars == Range(LowerChars) \cup Range(UpperChars) \cup Range(DigitChars) \cup {" ", "-", ":", "_", "/"}

\* A sequence of characters with every element computed.
StringOf(f) == SubSeq(f, 1, Len(f))

LowerCaseTable ==
  [c \in Chars |-> IF c \in Range(UpperChars) THEN LowerChars[IndexOf(UpperChars, c)] ELSE c]
UpperCaseTable ==
  [c \in Chars |-> IF c \in Range(LowerChars) THEN UpperChars[IndexOf(LowerChars, c)] ELSE c]

toLowerCaseChar(c) == LowerCaseTable[c]
toUpperCaseChar(c) == UpperCaseTable[c]
toLowerCase(s) == StringOf([i \in 1..Len(s) |-> toLowerCaseChar(s[i])])
toUpperCase(s) == StringOf([i \in 1..Len(s) |-> toUpperCaseChar(s[i])])

\* String.prototype.charCodeAt for the ASCII characters the program handles.
CharCodeTable ==
  [c \in Chars |->
     IF c \in Range(DigitChars) THEN 47 + IndexOf(DigitChars, c)
     ELSE IF c \in Range(UpperChars) THEN 64 + IndexOf(UpperChars, c)
     ELSE IF c \in Range(LowerChars) THEN 96 + IndexOf(LowerChars, c)
     ELSE IF c = " " THEN 32
     ELSE IF c = "-" THEN 45
     ELSE IF c = ":" THEN 58
     ELSE IF c = "/" THEN 47
     ELSE 95]

charCode(c) == CharCodeTable[c]

\* String.prototype.startsWith
startsWith(s, p) == Len(s) >= Len(p) /\ SubSeq(s, 1, Len(p)) = p

\* String.prototype.substring(0, n)
substring0(s, n) == SubSeq(s, 1, IF n < Len(s) THEN n ELSE Len(s))

\* String.prototype.lastIndexOf, 1-based, 0 when absent.
lastIndexOf(s, c) ==
  LET at == {i \in 1..Len(s) : s[i] = c}
  IN IF at = {} THEN 0 ELSE CHOOSE i \in at : \A j \in at : j <= i

\* String.prototype.split on a one-character separator.
RECURSIVE split(_, _)
split(s, sep) ==
  LET at == {k \in 1..Len(s) : s[k] = sep}
  IN IF at = {} THEN <<s>>
     ELSE LET i == CHOOSE k \in at : \A j \in at : k <= j
          IN <<SubSeq(s, 1, i - 1)>> \o split(SubSeq(s, i + 1, Len(s)), sep)

\* Number.prototype.toString(radix) of a non-negative integer.
RECURSIVE toStringRadix(_, _)
toStringRadix(n, radix) ==
  IF n < radix THEN <<HexChars[n + 1]>>
  ELSE toStringRadix(n \div radix, radix) \o <<HexChars[(n % radix) + 1]>>

---------------------------------------------------------------------------
(* Buffers *)

\* Buffer.prototype.toString('hex'): two lowercase digits a byte.
toHex(buf) ==
  StringOf([i \in 1..(2 * Len(buf)) |->
              LET b == buf[(i + 1) \div 2]
              IN HexChars[(IF i % 2 = 1 THEN b \div 16 ELSE b % 16) + 1]])

\* The value of a hex digit of either case, -1 for any other character.
HexDigitTable == [c \in Chars |-> IndexOf(HexChars, toLowerCaseChar(c)) - 1]

hexDigit(c) == HexDigitTable[c]

\* Buffer.from(string, 'hex'): digits of either case, read in pairs; decoding
\* stops at the first pair that is not two hex digits, and an odd last
\* character is dropped.
fromHex(s) ==
  LET pairs == Len(s) \div 2
      bad == {i \in 1..pairs : hexDigit(s[2 * i - 1]) < 0 \/ hexDigit(s[2 * i]) < 0}
      n == IF bad = {} THEN pairs ELSE (CHOOSE i \in bad : \A j \in bad : i <= j) - 1
  IN SubSeq([i \in 1..pairs |-> 16 * hexDigit(s[2 * i - 1]) + hexDigit(s[2 * i])], 1, n)

\* Buffer.prototype.subarray(a, b), 0-based, end exclusive.
subarray(buf, a, b) == SubSeq(buf, a + 1, IF b < Len(buf) THEN b ELSE Len(buf))

Zeros(n) == [i \in 1..n |-> 0]

---------------------------------------------------------------------------
(* The curve (tiny-secp256k1), at its interface.  A point is a residue     *)
(* modulo the prime CurveOrder, 0 the point at infinity, the generator 1;  *)
(* P and CurveOrder - P are the two points with the same x coordinate,     *)
(* the one in 1..HalfOrder having even y.                                  *)

CurveOrder == 46337
HalfOrder == (CurveOrder - 1) \div 2

\* A 32-byte big-endian number that fits two bytes, 65536 standing for all
\* larger values (they are all out of range of the curve).
beValue(buf) ==
  IF \E i \in 1..(Len(buf) - 2) : buf[i] # 0 THEN 65536
  ELSE 256 * buf[Len(buf) - 1] + buf[Len(buf)]

bytes32(v) == Zeros(30) \o <<v \div 256, v % 256>>

\* A 32-byte big-endian number reduced modulo the order of the curve.
\* The bytes lo..hi are folded into acc, one half of the range after the
\* other.
RECURSIVE beModRange(_, _, _, _)
beModRange(buf, lo, hi, acc) ==
  IF lo > hi THEN acc
  ELSE IF lo = hi THEN (256 * acc + buf[lo]) % CurveOrder
  ELSE LET mid == (lo + hi) \div 2
           left == beModRange(buf, lo, mid, acc)
       IN IF left < 0 THEN left ELSE beModRange(buf, mid + 1, hi, left)

beMod(buf) == beModRange(buf, 1, Len(buf), 0)

xOf(P) == IF P <= HalfOrder THEN P ELSE CurveOrder - P

\* ecc.isXOnlyPoint
isXOnlyPoint(buf) == Len(buf) = 32 /\ beValue(buf) >= 1 /\ beValue(buf) <= HalfOrder

\* ecc.isPoint for a compressed key, and the point it encodes.
isPoint(buf) == Len(buf) = 33 /\ buf[1] \in {2, 3} /\ isXOnlyPoint(Tail(buf))
pointOf(buf) == IF buf[1] = 2 THEN beValue(Tail(buf)) ELSE CurveOrder - beValue(Tail(buf))

\* ecc.pointFromScalar(d, compressed = true)
pointFromScalar(d) ==
  LET P == beValue(d) % CurveOrder
  IN <<IF P <= HalfOrder THEN 2 ELSE 3>> \o bytes32(xOf(P))

\* ecc.isPrivate
isPrivate(d) == Len(d) = 32 /\ beValue(d) >= 1 /\ beValue(d) < CurveOrder

\* a ^ e modulo the order, by squaring.
RECURSIVE powMod(_, _)
powMod(a, e) ==
  IF e = 0 THEN 1
  ELSE LET h == powMod(a, e \div 2)
           sq == (h * h) % CurveOrder
       IN IF e % 2 = 1 THEN (sq * a) % CurveOrder ELSE sq

\* Inverse modulo the prime order.
invMod(a) == powMod(a, CurveOrder - 2)

\* ecc.xOnlyPointAddTweak: lift x to the point with even y, add tweak * G.
\* Null (threw = TRUE here) when the sum is the point at infinity.
xOnlyPointAddTweak(p, tweak) ==
  LET Q == (beValue(p) + beMod(tweak)) % CurveOrder
  IN IF Q = 0 THEN [isNull |-> TRUE, parity |-> 0, xOnlyPubkey |-> <<>>]
     ELSE [isNull |-> FALSE, parity |-> IF Q <= HalfOrder THEN 0 ELSE 1,
           xOnlyPubkey |-> bytes32(xOf(Q))]

\* The nonce of a signature (RFC 6979 in the library): a function of the
\* hash and the key, never 0.
nonceOf(z, d, try) == 1 + ((7 * z + 13 * d + 5 + try) % (CurveOrder - 1))

\* ecc.sign(h, d): ECDSA, the 64-byte compact signature r || s with s
\* normalised to the lower half; a nonce giving s = 0 is retried.
RECURSIVE signTry(_, _, _)
signTry(z, d, try) ==
  LET k == nonceOf(z, d, try)
      r == xOf(k)
      s == (invMod(k) * ((z + r * d) % CurveOrder)) % CurveOrder
  IN IF s = 0 THEN signTry(z, d, try + 1)
     ELSE bytes32(r) \o bytes32(IF s > HalfOrder THEN CurveOrder - s ELSE s)

eccSign(h, d) ==
  IF Len(h) # 32 \/ ~isPrivate(d) THEN [threw |-> TRUE, value |-> <<>>]
  ELSE [threw |-> FALSE, value |-> signTry(beMod(h), beValue(d), 0)]

\* ecc.verify(h, Q, signature), strict = false: throws on a hash that is not
\* 32 bytes, a key that is no point, a signature that is not 64 bytes or whose
\* r or s is not below the order; false when r or s is 0; s and order - s are
\* both accepted.
eccVerify(h, Q, signature) ==
  IF Len(h) # 32 \/ ~isPoint(Q) \/ Len(signature) # 64 THEN [threw |-> TRUE, value |-> FALSE]
  ELSE LET r == beValue(SubSeq(signature, 1, 32))
           s == beValue(SubSeq(signature, 33, 64))
       IN IF r >= CurveOrder \/ s >= CurveOrder THEN [threw |-> TRUE, value |-> FALSE]
          ELSE IF r = 0 \/ s = 0 THEN [threw |-> FALSE, value |-> FALSE]
          ELSE LET w == invMod(s)
                   u1 == (beMod(h) * w) % CurveOrder
                   u2 == (r * w) % CurveOrder
                   R == (u1 + u2 * pointOf(Q)) % CurveOrder
               IN [threw |-> FALSE, value |-> R # 0 /\ xOf(R) = r]

---------------------------------------------------------------------------
(* Hashes (bitcoinjs-lib crypto), at their interface *)

\* SHA-256 stand-in: two 16-bit accumulators over the input, spread over 32
\* bytes.
\* The bytes lo..hi are absorbed into the accumulators acc = <<a, c>>, one
\* half of the range after the other.
RECURSIVE mix(_, _, _, _)
mix(data, lo, hi, acc) ==
  IF lo > hi THEN acc
  ELSE IF lo = hi
  THEN <<(31 * acc[1] + data[lo] + 1) % 65521, (257 * acc[2] + 3 * data[lo] + acc[1] + 7) % 65519>>
  ELSE LET mid == (lo + hi) \div 2
           left == mix(data, lo, mid, acc)
       IN IF left[1] < 0 THEN left ELSE mix(data, mid + 1, hi, left)

sha256(data) ==
  LET acc == mix(data, 1, Len(data), <<1, Len(data)>>)
      w == <<acc[1] \div 256, acc[1] % 256, acc[2] \div 256, acc[2] % 256>>
  IN SubSeq([i \in 1..32 |-> (w[((i - 1) % 4) + 1] + 17 * ((i - 1) \div 4)) % 256], 1, 32)

utf8(s) == StringOf([i \in 1..Len(s) |-> charCode(s[i])])

\* bcrypto.taggedHash(tag, data) = SHA256(SHA256(tag) || SHA256(tag) || data)
taggedHash(tag, data) == sha256(sha256(utf8(tag)) \o sha256(utf8(tag)) \o data)

---------------------------------------------------------------------------
(* Scripts (bitcoinjs-lib script) *)

OP_1 == 81
OP_DROP == 117
OP_CHECKSIG == 172
OP_CHECKSIGVERIFY == 173
OP_CHECKLOCKTIMEVERIFY == 177
OP_PUSHDATA1 == 76

\* bitcoin.script.number.encode: little-endian magnitude of minimal length,
\* the sign in the top bit of the last byte.
scriptNumSize(i) ==
  IF i > 8388607 THEN 4 ELSE IF i > 32767 THEN 3 ELSE IF i > 127 THEN 2 ELSE IF i > 0 THEN 1 ELSE 0

RECURSIVE pow256(_)
pow256(i) == IF i = 0 THEN 1 ELSE 256 * pow256(i - 1)

scriptNumberEncode(n) ==
  LET value == IF n < 0 THEN 0 - n ELSE n
      size == scriptNumSize(value)
  IN [i \in 1..size |->
        LET b == (value \div pow256(i - 1)) % 256
        IN IF i = size /\ n < 0 THEN b + 128 ELSE b]

\* bitcoin.script.number.decode of a minimal encoding (the inverse).
RECURSIVE leValue(_)
leValue(buf) == IF buf = <<>> THEN 0 ELSE Head(buf) + 256 * leValue(Tail(buf))

scriptNumberDecode(buf) ==
  IF buf = <<>> THEN 0
  ELSE IF buf[Len(buf)] >= 128
       THEN 0 - leValue([buf EXCEPT ![Len(buf)] = buf[Len(buf)] - 128])
       ELSE leValue(buf)

\* A chunk of a script is an opcode [op |-> n] or data [buf |-> bytes].
Op(n) == [isOp |-> TRUE, op |-> n, buf |-> <<>>]
Push(b) == [isOp |-> FALSE, op |-> 0, buf |-> b]

\* bitcoin.script.compile of one chunk: data is pushed minimally (an empty
\* buffer as OP_0, one byte 1..16 as OP_1..OP_16, 0x81 as OP_1NEGATE), up to
\* 75 bytes with a one-byte length, longer with OP_PUSHDATA1.
compileChunk(ch) ==
  IF ch.isOp THEN <<ch.op>>
  ELSE IF Len(ch.buf) = 0 THEN <<0>>
  ELSE IF Len(ch.buf) = 1 /\ ch.buf[1] >= 1 /\ ch.buf[1] <= 16 THEN <<OP_1 - 1 + ch.buf[1]>>
  ELSE IF Len(ch.buf) = 1 /\ ch.buf[1] = 129 THEN <<79>>
  ELSE IF Len(ch.buf) < OP_PUSHDATA1 THEN <<Len(ch.buf)>> \o ch.buf
  ELSE <<OP_PUSHDATA1, Len(ch.buf)>> \o ch.buf

RECURSIVE compile(_)
compile(chunks) ==
  IF chunks = <<>> THEN <<>> ELSE compileChunk(Head(chunks)) \o compile(Tail(chunks))

---------------------------------------------------------------------------
(* Taproot commitment (bitcoinjs-lib payments/bip341) *)

LEAF_VERSION_TAPSCRIPT == 192

\* Buffer.compare: -1, 0, 1 in lexicographic byte order.
bufferCompare(a, b) ==
  LET n == IF Len(a) < Len(b) THEN Len(a) ELSE Len(b)
      diff == {i \in 1..n : a[i] # b[i]}
  IN IF diff = {}
     THEN (IF Len(a) < Len(b) THEN 0 - 1 ELSE IF Len(a) > Len(b) THEN 1 ELSE 0)
     ELSE LET i == CHOOSE k \in diff : \A j \in diff : k <= j
          IN IF a[i] < b[i] THEN 0 - 1 ELSE 1

\* varuint prefix of a script shorter than 253 bytes.
compactSize(n) == <<n>>

tapleafHash(leaf) ==
  taggedHash(<<"T","a","p","L","e","a","f">>,
             <<leaf.version>> \o compactSize(Len(leaf.output)) \o leaf.output)

tapBranchHash(a, b) == taggedHash(<<"T","a","p","B","r","a","n","c","h">>, a \o b)

\* toHashTree of a two-leaf tree: the two leaf hashes sorted, then hashed.
\* Faulty variant of sortedBranchHash: the two hashes in the order given.
unsortedBranchHash(h1, h2) == tapBranchHash(h1, h2)

sortedBranchHash(h1, h2) ==
  IF bufferCompare(h1, h2) <= 0 THEN tapBranchHash(h1, h2) ELSE tapBranchHash(h2, h1)

toHashTree(scriptTree) ==
  sortedBranchHash(tapleafHash(scriptTree[1]), tapleafHash(scriptTree[2]))

\* tapTweakHash(pubKey, h): h is the empty buffer when there is no tree.
tapTweakHash(pubKey, h) == taggedHash(<<"T","a","p","T","w","e","a","k">>, pubKey \o h)

\* tweakKey(pubKey, h): null when the key is not 32 bytes, is no x coordinate
\* of the curve, or the tweaked point is the point at infinity.
tweakKey(pubKey, h) ==
  IF Len(pubKey) # 32 \/ ~isXOnlyPoint(pubKey)
  THEN [isNull |-> TRUE, parity |-> 0, xOnlyPubkey |-> <<>>]
  ELSE xOnlyPointAddTweak(pubKey, tapTweakHash(pubKey, h))

---------------------------------------------------------------------------
(* bech32 and bech32m (the bech32 package), word by word.  A 30-bit        *)
(* checksum register is the tuple of its six 5-bit words.                  *)

ALPHABET == <<"q","p","z","r","y","9","x","8","g","f","2","t","v","d","w","0",
              "s","3","j","n","5","4","k","h","c","e","6","m","u","a","7","l">>

\* ALPHABET_MAP: the value of each character of the alphabet, -1 for others.
ALPHABET_MAP == [c \in Chars |-> IndexOf(ALPHABET, c) - 1]

pow2(i) == 2 ^ i

\* a ^ b on 5-bit words, tabulated.
xor5(a, b) ==
  ((a + b) % 2) + 2 * (((a \div 2) + (b \div 2)) % 2) + 4 * (((a \div 4) + (b \div 4)) % 2)
  + 8 * (((a \div 8) + (b \div 8)) % 2) + 16 * (((a \div 16) + (b \div 16)) % 2)

XorTable == [a \in 0..31 |-> [b \in 0..31 |-> xor5(a, b)]]

\* A 30-bit number as its six 5-bit words, the highest first.
Words30(n) == [i \in 1..6 |-> (n \div pow2(5 * (6 - i))) % 32]

xor30(A, B) == [i \in 1..6 |-> XorTable[A[i]][B[i]]]

GENERATORS == <<Words30(996825010), Words30(642813549), Words30(513874426),
                Words30(1027748829), Words30(705979059)>>
ENCODING_CONST_BECH32 == Words30(1)
ENCODING_CONST_BECH32M == Words30(734539939)

\* The exclusive or of the generators selected by the bits of b = pre >> 25,
\* tabulated for the 32 values of b.
RECURSIVE xorGenerators(_, _, _)
xorGenerators(b, acc, i) ==
  IF i > 5 THEN acc
  ELSE xorGenerators(b, IF (b \div pow2(i - 1)) % 2 = 1 THEN xor30(acc, GENERATORS[i]) ELSE acc,
                     i + 1)

GeneratorTable == [b \in 0..31 |-> xorGenerators(b, Words30(0), 1)]

\* polymodStep(pre) = ((pre & 0x1ffffff) << 5) ^ the generators selected by
\* the top five bits of pre.
polymodStep(pre) ==
  xor30(<<pre[2], pre[3], pre[4], pre[5], pre[6], 0>>, GeneratorTable[pre[1]])

\* chk = polymodStep(chk) ^ v for the values lo..hi in turn, one half of the
\* range after the other.
RECURSIVE polymodFeed(_, _, _, _)
polymodFeed(chk, values, lo, hi) ==
  IF lo > hi THEN chk
  ELSE IF lo = hi THEN [polymodStep(chk) EXCEPT ![6] = XorTable[@][values[lo]]]
  ELSE LET mid == (lo + hi) \div 2
           left == polymodFeed(chk, values, lo, mid)
       IN IF left[6] < 0 THEN left ELSE polymodFeed(left, values, mid + 1, hi)

\* prefixChk(prefix): the high bits of each character, a zero, the low bits.
prefixChk(prefix) ==
  polymodFeed(Words30(1), [i \in 1..Len(prefix) |-> charCode(prefix[i]) \div 32] \o <<0>>
                          \o [i \in 1..Len(prefix) |-> charCode(prefix[i]) % 32],
              1, 2 * Len(prefix) + 1)

\* The 5-bit word i (0 the highest) of a 30-bit register.
checksumWord(chk, i) == chk[i + 1]

\* encode(prefix, words) for the given constant; the inputs of the program
\* are within the length limit of 90 and their words below 32.
bech32Encode(prefix, words, const) ==
  LET chk == xor30(polymodFeed(prefixChk(prefix), words \o <<0, 0, 0, 0, 0, 0>>,
                               1, Len(words) + 6), const)
  IN prefix \o <<"1">> \o [i \in 1..Len(words) |-> ALPHABET[words[i] + 1]]
     \o [i \in 1..6 |-> ALPHABET[checksumWord(chk, i - 1) + 1]]

\* decode(str) up to the comparison of the checksum: ok is FALSE where the
\* package throws before it, chk is polymod of the prefix and the words.
bech32Parse(str0) ==
  LET bad == [ok |-> FALSE, prefix |-> <<>>, words |-> <<>>, chk |-> Words30(0)]
      str == toLowerCase(str0)
      sep == lastIndexOf(str, "1")
  IN IF Len(str0) < 8 \/ Len(str0) > 90 THEN bad
     ELSE IF str0 # str /\ str0 # toUpperCase(str0) THEN bad
     ELSE IF sep <= 1 THEN bad
     ELSE LET prefix == SubSeq(str, 1, sep - 1)
              wordChars == SubSeq(str, sep + 1, Len(str))
          IN IF Len(wordChars) < 6 THEN bad
             ELSE IF \E i \in 1..Len(prefix) : charCode(prefix[i]) < 33 \/ charCode(prefix[i]) > 126
                  THEN bad
             ELSE IF \E i \in 1..Len(wordChars) : ALPHABET_MAP[wordChars[i]] < 0 THEN bad
             ELSE LET vals == StringOf([i \in 1..Len(wordChars) |-> ALPHABET_MAP[wordChars[i]]])
                  IN [ok |-> TRUE, prefix |-> prefix,
                      words |-> SubSeq(vals, 1, Len(vals) - 6),
                      chk |-> polymodFeed(prefixChk(prefix), vals, 1, Len(vals))]

\* decode(str) of the package made for the given constant (bech32 or
\* bech32m), from the parse of str: ok is FALSE where it throws.
bech32Decode(parsed, const) ==
  IF parsed.ok /\ parsed.chk = const
  THEN [ok |-> TRUE, prefix |-> parsed.prefix, words |-> parsed.words]
  ELSE [ok |-> FALSE, prefix |-> <<>>, words |-> <<>>]

\* convert(data, inBits, outBits, pad): regroup the bits of data.  value
\* holds the bits not yet written (the low `bits` bits of the source's value).
\* The inner loop: while (bits >= outBits) write the top outBits bits.
RECURSIVE convertFlush(_, _)
convertFlush(st, outBits) ==
  IF st.bits < outBits THEN st
  ELSE convertFlush([value |-> st.value % pow2(st.bits - outBits), bits |-> st.bits - outBits,
                     result |-> Append(st.result, st.value \div pow2(st.bits - outBits))],
                    outBits)

\* The outer loop over the elements lo..hi of data, one half of the range
\* after the other.
RECURSIVE convertLoop(_, _, _, _, _, _)
convertLoop(data, lo, hi, inBits, outBits, st) ==
  IF lo > hi THEN st
  ELSE IF lo = hi
  THEN convertFlush([st EXCEPT !.value = @ * pow2(inBits) + data[lo], !.bits = @ + inBits],
                    outBits)
  ELSE LET mid == (lo + hi) \div 2
           left == convertLoop(data, lo, mid, inBits, outBits, st)
       IN IF left.bits < 0 THEN left ELSE convertLoop(data, mid + 1, hi, inBits, outBits, left)

convert(data, inBits, outBits) ==
  convertLoop(data, 1, Len(data), inBits, outBits, [value |-> 0, bits |-> 0, result |-> <<>>])

\* toWords(bytes) = convert(bytes, 8, 5, true)
toWords(bytes) ==
  LET r == convert(bytes, 8, 5)
  IN IF r.bits > 0 THEN Append(r.result, (r.value * pow2(5 - r.bits)) % 32) ELSE r.result

\* fromWords(words) = convert(words, 5, 8, false): throws on excess or
\* non-zero padding.
fromWords(words) ==
  LET r == convert(words, 5, 8)
  IN IF r.bits >= 5 \/ (r.value * pow2(8 - r.bits)) % 256 # 0
     THEN [threw |-> TRUE, value |-> <<>>]
     ELSE [threw |-> FALSE, value |-> r.result]

---------------------------------------------------------------------------
(* Addresses and the p2tr payment (bitcoinjs-lib address, payments.p2tr) *)

\* bitcoin.networks.testnet.bech32
network == [bech32 |-> <<"t","b">>]

\* A property that was never set (undefined), where a string is expected.
Undefined == <<"undefined">>

TAPROOT_WITNESS_VERSION == 1

\* The lazily computed properties of p2tr({internalPubkey, scriptTree,
\* network}): pubkey is the tweaked key, address and output are undefined
\* when there is no pubkey.  scriptTree is <<>> when none is given.
p2trOfTweaked(tweaked) ==
  IF tweaked.isNull
  THEN [hasPubkey |-> FALSE, pubkey |-> <<>>, address |-> Undefined, output |-> <<>>]
  ELSE [hasPubkey |-> TRUE, pubkey |-> tweaked.xOnlyPubkey,
        address |-> bech32Encode(network.bech32,
                                 <<TAPROOT_WITNESS_VERSION>> \o toWords(tweaked.xOnlyPubkey),
                                 ENCODING_CONST_BECH32M),
        output |-> compile(<<Op(OP_1), Push(tweaked.xOnlyPubkey)>>)]

p2trProps(internalPubkey, scriptTree) ==
  p2trOfTweaked(tweakKey(internalPubkey,
                         IF scriptTree = <<>> THEN <<>> ELSE toHashTree(scriptTree)))

\* p2tr with validation (the default): throws when internalPubkey is not 32
\* bytes (typeforce), when the key cannot be tweaked, or when the tweaked
\* key is no x coordinate of the curve.
p2trValidated(internalPubkey, o) ==
  IF Len(internalPubkey) # 32 \/ ~o.hasPubkey \/ ~isXOnlyPoint(o.pubkey)
  THEN [threw |-> TRUE, address |-> Undefined, output |-> <<>>]
  ELSE [threw |-> FALSE, address |-> o.address, output |-> o.output]

p2tr(internalPubkey, scriptTree) ==
  p2trValidated(internalPubkey, p2trProps(internalPubkey, scriptTree))

\* address.fromBech32: bech32 for version 0, bech32m for the others.
NoBech32 == [threw |-> TRUE, version |-> 0, prefix |-> <<>>, data |-> <<>>]

\* The result for the decoded version and prefix and the outcome data of
\* fromWords.
fromBech32Data(version, prefix, data) ==
  IF data.threw THEN NoBech32
  ELSE [threw |-> FALSE, version |-> version, prefix |-> prefix, data |-> data.value]

\* The result for the outcomes b of bech32.decode and m of bech32m.decode.
fromBech32Decoded(b, m) ==
  IF b.ok
  THEN IF b.words = <<>> \/ b.words[1] # 0 THEN NoBech32
       ELSE fromBech32Data(0, b.prefix, fromWords(Tail(b.words)))
  ELSE IF ~m.ok \/ m.words = <<>> \/ m.words[1] = 0 THEN NoBech32
       ELSE fromBech32Data(m.words[1], m.prefix, fromWords(Tail(m.words)))

fromBech32Parsed(parsed) ==
  fromBech32Decoded(bech32Decode(parsed, ENCODING_CONST_BECH32),
                    bech32Decode(parsed, ENCODING_CONST_BECH32M))

fromBech32(address) == fromBech32Parsed(bech32Parse(address))

\* address.toOutputScript(address, network).  No string of the model is a
\* base58check address, so the bech32 branch decides.  Version 0 gives a
\* p2wpkh or p2wsh script, version 1 with 32 bytes a p2tr script (whose
\* payment validates the key), versions 2..16 with 2..40 bytes a future
\* segwit script; anything else throws.
NoScript == [threw |-> TRUE, value |-> <<>>]

scriptOfDecoded(decodeBech32) ==
  IF decodeBech32.threw \/ decodeBech32.prefix # network.bech32 THEN NoScript
  ELSE IF decodeBech32.version = 0
       THEN IF Len(decodeBech32.data) \in {20, 32}
            THEN [threw |-> FALSE, value |-> compile(<<Push(<<>>), Push(decodeBech32.data)>>)]
            ELSE NoScript
  ELSE IF decodeBech32.version = 1
       THEN IF Len(decodeBech32.data) = 32 /\ isXOnlyPoint(decodeBech32.data)
            THEN [threw |-> FALSE, value |-> compile(<<Op(OP_1), Push(decodeBech32.data)>>)]
            ELSE NoScript
  ELSE IF decodeBech32.version >= 2 /\ decodeBech32.version <= 16
          /\ Len(decodeBech32.data) >= 2 /\ Len(decodeBech32.data) <= 40
       THEN [threw |-> FALSE,
             value |-> compile(<<Op(OP_1 - 1 + decodeBech32.version), Push(decodeBech32.data)>>)]
       ELSE NoScript

toOutputScript(address) == scriptOfDecoded(fromBech32(address))

---------------------------------------------------------------------------
(* utils/bitcoin.js *)

\* An argument that is a Buffer or a string.
Buf(b) == [isBuffer |-> TRUE, buf |-> b, str |-> <<>>]
Str(x) == [isBuffer |-> FALSE, buf |-> <<>>, str |-> x]

\* Number.prototype.toString() of an integer, the sign included.
decimal(n) == IF n < 0 THEN <<"-">> \o toStringRadix(0 - n, 10) ELSE toStringRadix(n, 10)

\* new Date(seconds * 1000).toLocaleString(): the instant, written out.
toLocaleString(seconds) == <<"D">> \o decimal(seconds)

\* generateKeyPair, for the private key ECPair.makeRandom drew: the keys in
\* hex, and the WIF string of the private key (the letter c, then the key).
toWIF(privateKey) == <<"c">> \o toHex(privateKey)

generateKeyPair(d) ==
  [privateKey |-> toHex(bytes32(d)),
   publicKey |-> toHex(pointFromScalar(bytes32(d))),
   wif |-> toWIF(bytes32(d))]

\* wifToKeyPair: ECPair.fromWIF throws on a string that is no WIF of a
\* private key.
keyPairOf(wif, privateKey) ==
  IF Len(wif) = 65 /\ wif[1] = "c" /\ Len(privateKey) = 32 /\ isPrivate(privateKey)
  THEN [threw |-> FALSE, privateKey |-> privateKey, publicKey |-> pointFromScalar(privateKey)]
  ELSE [threw |-> TRUE, privateKey |-> <<>>, publicKey |-> <<>>]

wifToKeyPair(wif) == keyPairOf(wif, IF wif = <<>> THEN <<>> ELSE fromHex(Tail(wif)))

\* Faulty variant of xOnlyOfBuffer: the first 32 bytes of a key of 33 or 65
\* bytes, the prefix byte among them.
xOnlyOfBufferWithPrefix(pubKeyBuffer) ==
  IF Len(pubKeyBuffer) \in {33, 65} THEN [threw |-> FALSE, value |-> subarray(pubKeyBuffer, 0, 32)]
  ELSE IF Len(pubKeyBuffer) = 32 THEN [threw |-> FALSE, value |-> pubKeyBuffer]
  ELSE [threw |-> TRUE, value |-> <<>>]

\* toXOnlyPublicKey from the Buffer on.
xOnlyOfBuffer(pubKeyBuffer) ==
  IF Len(pubKeyBuffer) = 33 THEN [threw |-> FALSE, value |-> subarray(pubKeyBuffer, 1, 33)]
  ELSE IF Len(pubKeyBuffer) = 65 THEN [threw |-> FALSE, value |-> subarray(pubKeyBuffer, 1, 33)]
  ELSE IF Len(pubKeyBuffer) = 32 THEN [threw |-> FALSE, value |-> pubKeyBuffer]
  ELSE [threw |-> TRUE, value |-> <<>>]

\* Faulty variant of toXOnlyPublicKey: a compressed key with the prefix 03
\* gives another x-only key than the one with the prefix 02.
toXOnlyPublicKeyByParity(publicKey) ==
  xOnlyOfBuffer(IF publicKey.isBuffer
                THEN IF Len(publicKey.buf) = 33 /\ publicKey.buf[1] = 3
                     THEN [publicKey.buf EXCEPT ![33] = (@ + 1) % 256]
                     ELSE publicKey.buf
                ELSE IF Len(fromHex(publicKey.str)) = 33 /\ fromHex(publicKey.str)[1] = 3
                     THEN [fromHex(publicKey.str) EXCEPT ![33] = (@ + 1) % 256]
                     ELSE fromHex(publicKey.str))

toXOnlyPublicKey(publicKey) ==
  xOnlyOfBuffer(IF publicKey.isBuffer THEN publicKey.buf ELSE fromHex(publicKey.str))

NoSimpleAddress == [threw |-> TRUE, address |-> Undefined, publicKey |-> Undefined, output |-> Undefined]

\* The return statement of createSimpleTaprootAddress, which the p2tr
\* payment pay reaches when it did not throw.
simpleAddressOf(xOnlyPubKey, pay) ==
  IF pay.threw THEN NoSimpleAddress
  ELSE [threw |-> FALSE, address |-> pay.address,
        publicKey |-> toHex(xOnlyPubKey), output |-> toHex(pay.output)]

\* createSimpleTaprootAddress from the x-only key on.
simpleAddressOfKey(xOnlyPubKey) == simpleAddressOf(xOnlyPubKey, p2tr(xOnlyPubKey, <<>>))

\* createSimpleTaprootAddress from Buffer.from(ownerPublicKey) on.
simpleAddressOfBuffer(pubKeyBuffer) ==
  IF Len(pubKeyBuffer) \notin {32, 33, 65} THEN NoSimpleAddress
  ELSE simpleAddressOfKey(IF Len(pubKeyBuffer) = 32 THEN pubKeyBuffer
                          ELSE subarray(pubKeyBuffer, 1, 33))

createSimpleTaprootAddress(ownerPublicKey) ==
  simpleAddressOfBuffer(IF ownerPublicKey.isBuffer THEN ownerPublicKey.buf
                        ELSE utf8(ownerPublicKey.str))

\* Faulty variants of isValidTaprootAddressTry: the prefix of mainnet, and
\* the prefix check without the decoding.
isValidMainnetTry(address) ==
  IF address.kind # "string" THEN [threw |-> TRUE, value |-> FALSE]
  ELSE IF ~startsWith(address.str, <<"b","c","1","p">>) THEN [threw |-> FALSE, value |-> FALSE]
  ELSE IF toOutputScript(address.str).threw THEN [threw |-> TRUE, value |-> FALSE]
  ELSE [threw |-> FALSE, value |-> TRUE]

isValidPrefixTry(address) ==
  IF address.kind # "string" THEN [threw |-> TRUE, value |-> FALSE]
  ELSE [threw |-> FALSE, value |-> startsWith(address.str, <<"t","b","1","p">>)]

\* The body of isValidTaprootAddress inside try.  address is any value:
\* calling startsWith on null, undefined or a number throws a TypeError.
isValidTaprootAddressTry(address) ==
  IF address.kind # "string" THEN [threw |-> TRUE, value |-> FALSE]
  ELSE IF ~startsWith(address.str, <<"t","b","1","p">>) THEN [threw |-> FALSE, value |-> FALSE]
  ELSE IF toOutputScript(address.str).threw THEN [threw |-> TRUE, value |-> FALSE]
  ELSE [threw |-> FALSE, value |-> TRUE]

\* Faulty variant of catchFalse: no catch block.
rethrow(attempt) == attempt

\* try { ... } catch (error) { return false; }
catchFalse(attempt) == IF attempt.threw THEN [threw |-> FALSE, value |-> FALSE] ELSE attempt

isValidTaprootAddress(address) == catchFalse(isValidTaprootAddressTry(address))

JsString(x) == [kind |-> "string", str |-> x]

NoTrust ==
  [threw |-> TRUE, address |-> Undefined, internalPubkey |-> Undefined,
   heirPubkey |-> Undefined, oraclePubkey |-> Undefined, locktime |-> 0,
   locktimeDate |-> Undefined, scripts |-> [timelock |-> Undefined, oracle |-> Undefined],
   output |-> Undefined, witness |-> <<>>]

\* Faulty variant of timelockScriptOf: the locktime is left out of the script.
timelockScriptWithoutLocktime(locktime, heirXOnly) ==
  compile(<<Op(OP_CHECKLOCKTIMEVERIFY), Op(OP_DROP), Push(heirXOnly), Op(OP_CHECKSIG)>>)

timelockScriptOf(locktime, heirXOnly) ==
  compile(<<Push(scriptNumberEncode(locktime)), Op(OP_CHECKLOCKTIMEVERIFY), Op(OP_DROP),
            Push(heirXOnly), Op(OP_CHECKSIG)>>)

\* Faulty variant of oracleScriptOf: the heir's key in the place of the
\* oracle's.
oracleScriptOfHeirAlone(oracleXOnly, heirXOnly) ==
  compile(<<Push(heirXOnly), Op(OP_CHECKSIGVERIFY), Push(heirXOnly), Op(OP_CHECKSIG)>>)

oracleScriptOf(oracleXOnly, heirXOnly) ==
  compile(<<Push(oracleXOnly), Op(OP_CHECKSIGVERIFY), Push(heirXOnly), Op(OP_CHECKSIG)>>)

\* The script tree createTaprootTrust builds: the timelock leaf, then the
\* oracle leaf.
scriptTreeOf(timelockScript, oracleScript) ==
  <<[output |-> timelockScript, version |-> LEAF_VERSION_TAPSCRIPT],
    [output |-> oracleScript, version |-> LEAF_VERSION_TAPSCRIPT]>>

\* createTaprootTrust at the instant currentTime = floor(Date.now() / 1000).
\* Faulty variants of trustOfPayment: the output script of the internal key
\* in place of the payment's, and a record returned although the payment
\* threw.
trustOfInternalKey(ownerXOnly, heirXOnly, oracleXOnly, locktime, timelockScript, oracleScript, pay) ==
  IF pay.threw THEN NoTrust
  ELSE [threw |-> FALSE,
        address |-> pay.address,
        internalPubkey |-> toHex(ownerXOnly),
        heirPubkey |-> toHex(heirXOnly),
        oraclePubkey |-> toHex(oracleXOnly),
        locktime |-> locktime,
        locktimeDate |-> toLocaleString(locktime),
        scripts |-> [timelock |-> toHex(timelockScript),
                     oracle |-> toHex(oracleScript)],
        output |-> toHex(compile(<<Op(OP_1), Push(ownerXOnly)>>)),
        witness |-> <<>>]

trustOfFailedPayment(ownerXOnly, heirXOnly, oracleXOnly, locktime, timelockScript, oracleScript, pay) ==
  [threw |-> FALSE,
   address |-> pay.address,
   internalPubkey |-> toHex(ownerXOnly),
   heirPubkey |-> toHex(heirXOnly),
   oraclePubkey |-> toHex(oracleXOnly),
   locktime |-> locktime,
   locktimeDate |-> toLocaleString(locktime),
   scripts |-> [timelock |-> toHex(timelockScript),
                oracle |-> toHex(oracleScript)],
   output |-> toHex(pay.output),
   witness |-> <<>>]

\* The return statement of createTaprootTrust, which the p2tr payment pay
\* reaches when it did not throw.
trustOfPayment(ownerXOnly, heirXOnly, oracleXOnly, locktime, timelockScript, oracleScript, pay) ==
  IF pay.threw THEN NoTrust
  ELSE [threw |-> FALSE,
        address |-> pay.address,
        internalPubkey |-> toHex(ownerXOnly),
        heirPubkey |-> toHex(heirXOnly),
        oraclePubkey |-> toHex(oracleXOnly),
        locktime |-> locktime,
        locktimeDate |-> toLocaleString(locktime),
        scripts |-> [timelock |-> toHex(timelockScript),
                     oracle |-> toHex(oracleScript)],
        output |-> toHex(pay.output),
        witness |-> <<>>]

\* createTaprootTrust from the two compiled scripts on.
trustOfScripts(ownerXOnly, heirXOnly, oracleXOnly, locktime, timelockScript, oracleScript) ==
  trustOfPayment(ownerXOnly, heirXOnly, oracleXOnly, locktime, timelockScript, oracleScript,
                 p2tr(ownerXOnly, scriptTreeOf(timelockScript, oracleScript)))

\* createTaprootTrust from the three x-only keys (the outcomes of
\* toXOnlyPublicKey) and the locktime on.
trustOfKeys(ownerXOnly, heirXOnly, oracleXOnly, locktime) ==
  IF ownerXOnly.threw \/ heirXOnly.threw \/ oracleXOnly.threw THEN NoTrust
  ELSE trustOfScripts(ownerXOnly.value, heirXOnly.value, oracleXOnly.value, locktime,
                      timelockScriptOf(locktime, heirXOnly.value),
                      oracleScriptOf(oracleXOnly.value, heirXOnly.value))

createTaprootTrust(ownerPublicKey, heirPublicKey, oraclePublicKey, timelockHours, currentTime) ==
  trustOfKeys(toXOnlyPublicKey(ownerPublicKey), toXOnlyPublicKey(heirPublicKey),
              toXOnlyPublicKey(oraclePublicKey), currentTime + (timelockHours * 60 * 60))

---------------------------------------------------------------------------
(* utils/oracle.js *)

\* A 32-bit integer is the pair <<high 16 bits, low 16 bits>> of its two's
\* complement, so that no product leaves the range of TLC's integers.
Int32(hi, lo) == <<hi % 65536, lo % 65536>>
isNegative32(h) == h[1] >= 32768

\* hash << 5
shl5(h) == Int32(32 * h[1] + (32 * h[2]) \div 65536, 32 * h[2])
\* a - b and a + c, wrapped to 32 bits as hash & hash does
sub32(a, b) == Int32(a[1] - b[1] + 65536 - (IF a[2] < b[2] THEN 1 ELSE 0), a[2] - b[2] + 65536)
add32(a, c) == Int32(a[1] + (a[2] + c) \div 65536, a[2] + c)
\* Faulty variant of abs32: the value without Math.abs, read as unsigned.
unsigned32(h) == h

\* Math.abs of the signed value: a number in 0..2^31, as high and low half.
abs32(h) == IF isNegative32(h) THEN sub32(<<0, 0>>, h) ELSE h

\* String.prototype.padStart(n, "0")
padStart0(x, n) == IF Len(x) >= n THEN x ELSE [i \in 1..(n - Len(x)) |-> "0"] \o x

\* Number.prototype.toString(16) of a number given as two 16-bit halves.
toString16(h) ==
  IF h[1] = 0 THEN toStringRadix(h[2], 16)
  ELSE toStringRadix(h[1], 16) \o padStart0(toStringRadix(h[2], 16), 4)

\* The loop of _sha256: hash = ((hash << 5) - hash) + char; hash = hash & hash.
\* The loop over the characters lo..hi (1-based), one half of the range
\* after the other.
RECURSIVE sha256Loop(_, _, _, _)
sha256Loop(message, lo, hi, hash) ==
  IF lo > hi THEN hash
  ELSE IF lo = hi THEN add32(sub32(shl5(hash), hash), charCode(message[lo]))
  ELSE LET mid == (lo + hi) \div 2
           left == sha256Loop(message, lo, mid, hash)
       IN IF left[1] < 0 THEN left ELSE sha256Loop(message, mid + 1, hi, left)

_sha256(message) ==
  padStart0(toString16(abs32(sha256Loop(message, 1, Len(message), <<0, 0>>))), 64)

\* Faulty variant of _generateCertId: the identifier as it is before
\* toUpperCase.
_generateCertIdAsWritten(trustId, timestamp) ==
  <<"C","E","R","T","-">> \o substring0(trustId, 8) \o <<"-">> \o toStringRadix(timestamp, 16)

_generateCertId(trustId, timestamp) ==
  toUpperCase(<<"C","E","R","T","-">> \o substring0(trustId, 8) \o <<"-">>
              \o toStringRadix(timestamp, 16))

\* new MockOracle(oracleKeyPair): the three fields copied, and the key pair
\* of the WIF string; the constructor throws when wifToKeyPair does.
oracleOfKeyPair(oracleKeyPair, keyPair) ==
  [threw |-> keyPair.threw,
   publicKey |-> oracleKeyPair.publicKey,
   privateKey |-> oracleKeyPair.privateKey,
   wif |-> oracleKeyPair.wif,
   keyPair |-> keyPair]

MockOracle(oracleKeyPair) == oracleOfKeyPair(oracleKeyPair, wifToKeyPair(oracleKeyPair.wif))

createMockOracle(oracleKeys) == MockOracle(oracleKeys)

DEATH_CERT == <<"D","E","A","T","H","_","C","E","R","T">>

\* The certificate object, for the outcome signature of ecc.sign.
certificateOfSignature(oracle, trustId, personName, timestamp, message, messageHash, signature) ==
  [threw |-> signature.threw,
   kind |-> "object",
   trustId |-> trustId,
   personName |-> personName,
   timestamp |-> timestamp,
   issuedAt |-> toLocaleString(timestamp),
   message |-> message,
   messageHash |-> JsString(toHex(messageHash)),
   signature |-> JsString(toHex(signature.value)),
   oraclePublicKey |-> JsString(oracle.publicKey),
   certificateId |-> _generateCertId(trustId, timestamp)]

\* Faulty variant of certificateOfHash: the hash of the message is signed
\* with its last byte changed.
certificateOfOtherHash(oracle, trustId, personName, timestamp, message, messageHash) ==
  certificateOfSignature(oracle, trustId, personName, timestamp, message, messageHash,
                         eccSign(SubSeq(messageHash, 1, 31) \o <<(messageHash[32] + 1) % 256>>,
                                 oracle.keyPair.privateKey))

certificateOfHash(oracle, trustId, personName, timestamp, message, messageHash) ==
  certificateOfSignature(oracle, trustId, personName, timestamp, message, messageHash,
                         eccSign(messageHash, oracle.keyPair.privateKey))

certificateOfMessage(oracle, trustId, personName, timestamp, message) ==
  certificateOfHash(oracle, trustId, personName, timestamp, message, fromHex(_sha256(message)))

\* Faulty variant of oracleAfterIssue: the issuance puts the key pair of the
\* next private key in place of the oracle's.
oracleWithNextKey(oracle) ==
  [oracle EXCEPT !.keyPair = keyPairOf(oracle.wif, bytes32(1 + (beValue(oracle.keyPair.privateKey) % (CurveOrder - 1))))]

\* The oracle after issueDeathCertificate has returned: the method assigns to
\* no field of this, and ecc.sign leaves the private key it is given as it is.
oracleAfterIssue(oracle) == oracle

\* issueDeathCertificate at the instant timestamp = floor(Date.now() / 1000).
issueDeathCertificate(oracle, trustId, personName, timestamp) ==
  certificateOfMessage(oracle, trustId, personName, timestamp,
                       DEATH_CERT \o <<":">> \o trustId \o <<":">> \o personName \o <<":">>
                       \o decimal(timestamp))

\* Buffer.from(value, 'hex'): the hex digits of a string; a TypeError for
\* undefined, null and numbers.
bufferFromHex(value) ==
  IF value.kind = "string" THEN [threw |-> FALSE, value |-> fromHex(value.str)]
  ELSE [threw |-> TRUE, value |-> <<>>]

\* The body of verifyCertificate inside try.  certificate is any value:
\* reading a property of null or undefined throws a TypeError.
verifyBuffers(messageHash, signature, publicKey) ==
  IF messageHash.threw \/ signature.threw \/ publicKey.threw
  THEN [threw |-> TRUE, value |-> FALSE]
  ELSE eccVerify(messageHash.value, publicKey.value, signature.value)

\* Faulty variant of verifyCertificateTry: a certificate with a message
\* verifies only when its messageHash is the hash of the message.
verifyCertificateTryOfMessage(certificate) ==
  IF certificate.kind # "object" THEN [threw |-> TRUE, value |-> FALSE]
  ELSE IF "message" \in DOMAIN certificate
          /\ certificate.messageHash # JsString(_sha256(certificate.message))
       THEN [threw |-> FALSE, value |-> FALSE]
  ELSE verifyBuffers(bufferFromHex(certificate.messageHash),
                     bufferFromHex(certificate.signature),
                     bufferFromHex(certificate.oraclePublicKey))

verifyCertificateTry(certificate) ==
  IF certificate.kind # "object" THEN [threw |-> TRUE, value |-> FALSE]
  ELSE verifyBuffers(bufferFromHex(certificate.messageHash),
                     bufferFromHex(certificate.signature),
                     bufferFromHex(certificate.oraclePublicKey))

\* try { ... } catch (error) { console.error(...); return false; }
verifyCertificate(certificate) == catchFalse(verifyCertificateTry(certificate))

---------------------------------------------------------------------------
(* utils/bitcoin.js: explainTaprootTrust *)

\* a % b of JavaScript for b > 0: the result has the sign of a.
jsRemainder(a, b) == IF a >= 0 THEN a % b ELSE 0 - ((0 - a) % b)

HeirCanSpendAfter ==
  <<"H","e","i","r"," ","c","a","n"," ","s","p","e","n","d"," ","a","f","t","e","r"," ">>

\* Faulty variant of explainTaprootTrust: unlocked only after the locktime.
explainTaprootTrustAfter(trustInfo, currentTime) ==
  LET timeUntilUnlock == trustInfo.locktime - currentTime
      hoursUntilUnlock == timeUntilUnlock \div 3600
      minutesUntilUnlock == jsRemainder(timeUntilUnlock, 3600) \div 60
  IN [address |-> trustInfo.address,
      spendingPaths |->
        [keyPath |-> [pubkey |-> trustInfo.internalPubkey],
         timelockPath |->
           [description |-> HeirCanSpendAfter \o decimal(hoursUntilUnlock) \o <<"h", " ">>
                            \o decimal(minutesUntilUnlock) \o <<"m">>,
            pubkey |-> trustInfo.heirPubkey,
            unlockTime |-> trustInfo.locktimeDate,
            isUnlocked |-> timeUntilUnlock < 0],
         oraclePath |-> [oraclePubkey |-> trustInfo.oraclePubkey,
                         heirPubkey |-> trustInfo.heirPubkey]]]

\* explainTaprootTrust at the instant currentTime = floor(Date.now() / 1000);
\* the fields that are fixed texts are left out.
explainTaprootTrust(trustInfo, currentTime) ==
  LET timeUntilUnlock == trustInfo.locktime - currentTime
      hoursUntilUnlock == timeUntilUnlock \div 3600
      minutesUntilUnlock == jsRemainder(timeUntilUnlock, 3600) \div 60
  IN [address |-> trustInfo.address,
      spendingPaths |->
        [keyPath |-> [pubkey |-> trustInfo.internalPubkey],
         timelockPath |->
           [description |-> HeirCanSpendAfter \o decimal(hoursUntilUnlock) \o <<"h", " ">>
                            \o decimal(minutesUntilUnlock) \o <<"m">>,
            pubkey |-> trustInfo.heirPubkey,
            unlockTime |-> trustInfo.locktimeDate,
            isUnlocked |-> timeUntilUnlock <= 0],
         oraclePath |-> [oraclePubkey |-> trustInfo.oraclePubkey,
                         heirPubkey |-> trustInfo.heirPubkey]]]

---------------------------------------------------------------------------
(* The validation a Bitcoin node applies to a transaction that spends the  *)
(* output of a trust (BIP340, BIP341, BIP342, BIP65), for signatures of 64 *)
(* bytes and the opcodes of the two scripts.  A transaction is the record  *)
(* [nLockTime, finalSequence, outputs]: finalSequence says that the        *)
(* sequence number of its input is 0xffffffff, outputs stands for what it  *)
(* pays.                                                                   *)

LOCKTIME_THRESHOLD == 500000000

\* bitcoin.script.decompile from byte i on; a push running over the end of
\* the script gives the invalid opcode 255.
RECURSIVE decompileFrom(_, _)
decompileFrom(script, i) ==
  IF i > Len(script) THEN <<>>
  ELSE IF script[i] = 0 THEN <<Push(<<>>)>> \o decompileFrom(script, i + 1)
  ELSE IF script[i] < OP_PUSHDATA1
  THEN IF i + script[i] > Len(script) THEN <<Op(255)>>
       ELSE <<Push(SubSeq(script, i + 1, i + script[i]))>>
            \o decompileFrom(script, i + 1 + script[i])
  ELSE IF script[i] = OP_PUSHDATA1
  THEN IF i + 1 > Len(script) \/ i + 1 + script[i + 1] > Len(script) THEN <<Op(255)>>
       ELSE <<Push(SubSeq(script, i + 2, i + 1 + script[i + 1]))>>
            \o decompileFrom(script, i + 2 + script[i + 1])
  ELSE IF script[i] >= OP_1 /\ script[i] <= OP_1 + 15
  THEN <<Push(<<script[i] - OP_1 + 1>>)>> \o decompileFrom(script, i + 1)
  ELSE <<Op(script[i])>> \o decompileFrom(script, i + 1)

decompile(script) == decompileFrom(script, 1)

\* The four bytes of an unsigned 32-bit number, little-endian.
ser32(n) == [i \in 1..4 |-> (n \div pow256(i - 1)) % 256]

\* The message a signature commits to: the transaction, the output spent and,
\* on the script path, the hash of the leaf executed (empty on the key path).
SignatureHashSchnorr(tx, spentOutput, leafHash) ==
  taggedHash(<<"T","a","p","S","i","g","h","a","s","h">>,
             <<0>> \o ser32(tx.nLockTime) \o <<IF tx.finalSequence THEN 255 ELSE 254>>
             \o <<tx.outputs>> \o spentOutput \o leafHash)

\* BIP340.  The challenge of a signature stands in for the tagged hash of
\* r, p and msg: a number below the order computed from the three.  Then
\* the nonce, signing with the private key of the x-only public key p (on
\* this curve the private key of the point with even y is the value of p),
\* and verification.
challengeOf(r, P, z) ==
  (r * r + 3 * ((P * P) % CurveOrder) + 7 * z + 5 * r + 11) % CurveOrder

challenge(r, p, msg) == challengeOf(beValue(r), beValue(p), beMod(msg))

schnorrNonce(p, msg) == 1 + ((11 * beMod(msg) + 17 * beValue(p) + 3) % (CurveOrder - 1))

schnorrSignWithNonce(p, msg, k) ==
  bytes32(xOf(k))
    \o bytes32(((IF k <= HalfOrder THEN k ELSE CurveOrder - k)
                + challenge(bytes32(xOf(k)), p, msg) * beValue(p)) % CurveOrder)

schnorrSign(p, msg) == schnorrSignWithNonce(p, msg, schnorrNonce(p, msg))

\* s * G - e * P is the point with even y whose x coordinate is r.
schnorrValid(P, z, r, sValue) ==
  /\ P >= 1 /\ P <= HalfOrder
  /\ r >= 1 /\ r <= HalfOrder
  /\ sValue < CurveOrder
  /\ (sValue + CurveOrder - ((challengeOf(r, P, z) * P) % CurveOrder)) % CurveOrder = r

schnorrVerify(p, msg, sig) ==
  /\ Len(p) = 32 /\ Len(sig) = 64 /\ Len(msg) = 32
  /\ schnorrValid(beValue(p), beMod(msg), beValue(SubSeq(sig, 1, 32)),
                  beValue(SubSeq(sig, 33, 64)))

\* CastToBool: some byte is not zero, a last byte 0x80 (negative zero) aside.
CastToBool(v) ==
  \E i \in 1..Len(v) : v[i] # 0 /\ ~(i = Len(v) /\ v[i] = 128)

\* The state of an execution: the stack, its top last, or the failure.
Failed == [failed |-> TRUE, stack |-> <<>>]
Running(stack) == [failed |-> FALSE, stack |-> stack]
pop(stack, n) == SubSeq(stack, 1, Len(stack) - n)
top(stack, n) == stack[Len(stack) + 1 - n]

\* OP_CHECKLOCKTIMEVERIFY (BIP65)
CheckLockTime(st, tx) ==
  IF Len(st.stack) < 1 \/ Len(top(st.stack, 1)) > 5 THEN Failed
  ELSE IF scriptNumberEncode(scriptNumberDecode(top(st.stack, 1))) # top(st.stack, 1) THEN Failed
  ELSE IF scriptNumberDecode(top(st.stack, 1)) < 0 THEN Failed
  ELSE IF (tx.nLockTime < LOCKTIME_THRESHOLD)
            # (scriptNumberDecode(top(st.stack, 1)) < LOCKTIME_THRESHOLD) THEN Failed
  ELSE IF scriptNumberDecode(top(st.stack, 1)) > tx.nLockTime THEN Failed
  ELSE IF tx.finalSequence THEN Failed
  ELSE st

\* OP_CHECKSIG of tapscript (BIP342): the public key on top, the signature
\* below it; what is pushed, or the failure.
CheckSig(st, msg) ==
  IF Len(st.stack) < 2 \/ Len(top(st.stack, 1)) = 0 THEN Failed
  ELSE IF top(st.stack, 2) = <<>> THEN Running(pop(st.stack, 2) \o << <<>> >>)
  ELSE IF Len(top(st.stack, 1)) # 32 THEN Running(pop(st.stack, 2) \o << <<1>> >>)
  ELSE IF schnorrVerify(top(st.stack, 1), msg, top(st.stack, 2))
  THEN Running(pop(st.stack, 2) \o << <<1>> >>)
  ELSE Failed

verifyTop(st) ==
  IF st.failed \/ Len(st.stack) < 1 \/ ~CastToBool(top(st.stack, 1)) THEN Failed
  ELSE Running(pop(st.stack, 1))

\* One chunk of the script.
EvalChunk(ch, st, tx, msg) ==
  IF st.failed THEN Failed
  ELSE IF ~ch.isOp THEN Running(st.stack \o <<ch.buf>>)
  ELSE IF ch.op = OP_CHECKLOCKTIMEVERIFY THEN CheckLockTime(st, tx)
  ELSE IF ch.op = OP_DROP
  THEN (IF Len(st.stack) < 1 THEN Failed ELSE Running(pop(st.stack, 1)))
  ELSE IF ch.op = OP_CHECKSIG THEN CheckSig(st, msg)
  ELSE IF ch.op = OP_CHECKSIGVERIFY THEN verifyTop(CheckSig(st, msg))
  ELSE Failed

RECURSIVE EvalChunks(_, _, _, _, _)
EvalChunks(chunks, i, st, tx, msg) ==
  IF i > Len(chunks) THEN st
  ELSE EvalChunks(chunks, i + 1, EvalChunk(chunks[i], st, tx, msg), tx, msg)

\* Execution of a leaf script with the witness stack items (the first item
\* is the bottom of the stack): it must end with one element, and that true.
executed(st) == ~st.failed /\ Len(st.stack) = 1 /\ CastToBool(st.stack[1])

ExecuteTapscript(chunks, items, tx, msg) ==
  executed(EvalChunks(chunks, 1, Running(items), tx, msg))

ExecuteScript(script, items, tx, spentOutput) ==
  ExecuteTapscript(decompile(script), items, tx,
                   SignatureHashSchnorr(tx, spentOutput,
                                        tapleafHash([output |-> script,
                                                     version |-> LEAF_VERSION_TAPSCRIPT])))

\* The control block of a leaf of a two-leaf tree commits the script to the
\* output key (BIP341): leaf version and parity, internal key, sibling hash.
committed(tweaked, controlBlock, outputKey) ==
  /\ ~tweaked.isNull
  /\ tweaked.xOnlyPubkey = outputKey
  /\ tweaked.parity = controlBlock[1] % 2

VerifyTaprootCommitment(controlBlock, outputKey, script) ==
  /\ Len(controlBlock) = 65
  /\ controlBlock[1] - (controlBlock[1] % 2) = LEAF_VERSION_TAPSCRIPT
  /\ committed(tweakKey(SubSeq(controlBlock, 2, 33),
                        sortedBranchHash(tapleafHash([output |-> script,
                                                      version |-> LEAF_VERSION_TAPSCRIPT]),
                                         SubSeq(controlBlock, 34, 65))),
               controlBlock, outputKey)

\* IsFinalTx for a block at the given height whose median time past is time.
IsFinalTx(tx, block) ==
  \/ tx.finalSequence
  \/ tx.nLockTime < (IF tx.nLockTime < LOCKTIME_THRESHOLD THEN block.height ELSE block.time)

\* A spend of the output (a hex string as createTaprootTrust returns it) is
\* [path, tx, items, script, controlBlock]: on the key path items is the one
\* signature; on the script path the stack items, followed in the witness by
\* the script and its control block.
outputKeyOf(output) == SubSeq(fromHex(output), 3, 34)

VerifyWitnessProgram(output, spend) ==
  IF spend.path = "key"
  THEN /\ Len(spend.items) = 1
       /\ schnorrVerify(outputKeyOf(output),
                        SignatureHashSchnorr(spend.tx, fromHex(output), <<>>), spend.items[1])
  ELSE /\ VerifyTaprootCommitment(spend.controlBlock, outputKeyOf(output), spend.script)
       /\ ExecuteScript(spend.script, spend.items, spend.tx, fromHex(output))

\* The spend is valid in a block.
AcceptedInBlock(output, spend, block) ==
  IsFinalTx(spend.tx, block) /\ VerifyWitnessProgram(output, spend)

---------------------------------------------------------------------------
(* src/App.jsx: the computations of the handlers *)

\* null, and the name the demo issues certificates for.
Null == [kind |-> "null"]
DemoUser == <<"D","e","m","o"," ","U","s","e","r">>

\* The body of generateTrust inside try, down to newTrust, for the outcome
\* draw of the three calls of generateKeyPair (the private keys
\* ECPair.makeRandom returned, or the failure of the random generator) at
\* the instant currentTime.
newTrustOf(ownerKeys, heirKeys, oracleKeys, taprootTrust, currentTime) ==
  IF taprootTrust.threw THEN [threw |-> TRUE, newTrust |-> Null]
  ELSE [threw |-> FALSE,
        newTrust |->
          [kind |-> "object",
           address |-> taprootTrust.address,
           locktime |-> taprootTrust.locktime,
           locktimeDate |-> taprootTrust.locktimeDate,
           scripts |-> taprootTrust.scripts,
           explanation |-> explainTaprootTrust(taprootTrust, currentTime),
           owner |-> ownerKeys,
           heir |-> heirKeys,
           oracle |-> oracleKeys,
           createdAt |-> toLocaleString(currentTime)]]

trustOfKeyPairs(ownerKeys, heirKeys, oracleKeys, currentTime) ==
  newTrustOf(ownerKeys, heirKeys, oracleKeys,
             createTaprootTrust(Str(ownerKeys.publicKey), Str(heirKeys.publicKey),
                                Str(oracleKeys.publicKey), 1, currentTime),
             currentTime)

generateTrustTry(draw, currentTime) ==
  IF draw.failed THEN [threw |-> TRUE, newTrust |-> Null]
  ELSE trustOfKeyPairs(generateKeyPair(draw.owner), generateKeyPair(draw.heir),
                       generateKeyPair(draw.oracle), currentTime)

\* The body of issueOracleCertificate inside try, for the stored trust.
issuedOf(certificate) ==
  IF certificate.threw THEN [threw |-> TRUE, certificate |-> Null]
  ELSE [threw |-> FALSE, certificate |-> certificate]

certificateOfOracle(oracle, storedTrust, currentTime) ==
  IF oracle.threw THEN [threw |-> TRUE, certificate |-> Null]
  ELSE issuedOf(issueDeathCertificate(oracle, storedTrust.address, DemoUser, currentTime))

issueOracleCertificateTry(storedTrust, currentTime) ==
  certificateOfOracle(createMockOracle(storedTrust.oracle), storedTrust, currentTime)

---------------------------------------------------------------------------
(* The state.  The library is driven by the React component of src/App.jsx *)
(* (entry = "app") or by a script that calls its exports, as the test      *)
(* script does (entry = "script").                                         *)

VARIABLES
  entry,             \* "app" or "script"
  now,               \* floor(Date.now() / 1000)
  trust,             \* useState(null) of App
  copied,            \* useState(false)
  loading,           \* useState(false)
  deathCertificate,  \* useState(null)
  oracleLoading,     \* useState(false)
  alertShown,        \* what the last handler passed to alert(), "none" if nothing
  clipboardWrites,   \* promises of navigator.clipboard.writeText not yet settled
  timers,            \* pending setTimeout(() => setCopied(false), 2000): the
                     \* seconds at which they expire, in the order they were set
  lastCall           \* the script's last call: function, arguments, result

vars == <<entry, now, trust, copied, loading, deathCertificate, oracleLoading,
          alertShown, clipboardWrites, timers, lastCall>>
appVars == <<trust, copied, loading, deathCertificate, oracleLoading,
             alertShown, clipboardWrites, timers>>

\* The clock starts at ClockStart and is followed for MaxTicks seconds and,
\* where a script waits with a trust in hand, for MaxHours hours; at most
\* MaxPending clipboard promises and timers are pending together.
ClockStart == 1700000000
MaxTicks == 2
MaxHours == 1
MaxPending == 2

\* The delay of the timer of copyToClipboard, 2000 milliseconds, in seconds.
CopiedSeconds == 2
MaxIssued == 3

NoCall == [fn |-> "none"]

Init ==
  /\ entry \in {"app", "script"}
  /\ now = ClockStart
  /\ trust = Null
  /\ copied = FALSE
  /\ loading = FALSE
  /\ deathCertificate = Null
  /\ oracleLoading = FALSE
  /\ alertShown = "none"
  /\ clipboardWrites = 0
  /\ timers = <<>>
  /\ lastCall = NoCall

\* The script lets time pass before its first call, between the calls it
\* makes for one trust, and between the certificates it has one oracle
\* issue after the second.
Waiting ==
  \/ lastCall = NoCall
  \/ lastCall.fn = "createTaprootTrust" /\ lastCall.previous = NoCall /\ ~lastCall.result.threw
  \/ lastCall.fn = "explainTaprootTrust"
  \/ lastCall.fn = "issueDeathCertificate" /\ lastCall.earlier # <<>>

\* A second passes; a timer that expires in this second has run before.
Tick ==
  /\ (now - ClockStart) % 3600 < MaxTicks
  /\ entry = "script" => Waiting
  /\ \A i \in DOMAIN timers : timers[i] > now
  /\ now' = now + 1
  /\ UNCHANGED <<entry, appVars, lastCall>>

\* An hour passes while the script holds a trust.
HourPasses ==
  /\ (now - ClockStart) \div 3600 < MaxHours
  /\ entry = "script"
  /\ lastCall # NoCall
  /\ Waiting
  /\ now' = now + 3600
  /\ UNCHANGED <<entry, appVars, lastCall>>

---------------------------------------------------------------------------
(* src/App.jsx: the handlers *)

\* What the three calls of generateKeyPair in generateTrust can return: the
\* private keys of owner, heir and oracle, or no key when the random
\* generator fails.
RandomDraws ==
  {[failed |-> FALSE, owner |-> 5, heir |-> 300, oracle |-> 40000],
   [failed |-> FALSE, owner |-> 46000, heir |-> 7, oracle |-> 23169],
   [failed |-> TRUE, owner |-> 0, heir |-> 0, oracle |-> 0]}

\* generateTrustTry, tabulated for the draws and the instants of the clock.
GeneratedTrusts ==
  [draw \in RandomDraws |->
     [currentTime \in ClockStart..(ClockStart + MaxTicks) |-> generateTrustTry(draw, currentTime)]]

\* generateTrust: on success the new trust is stored; the catch block shows
\* an alert and stores nothing.  setLoading(true) and setLoading(false) are
\* both applied before the next render.
GenerateTrust ==
  /\ entry = "app"
  /\ \E draw \in RandomDraws :
       \E attempt \in {GeneratedTrusts[draw][now]} :
         IF attempt.threw
         THEN /\ alertShown' = "generateTrust"
              /\ UNCHANGED trust
         ELSE /\ trust' = attempt.newTrust
              /\ alertShown' = "none"
  /\ loading' = FALSE
  /\ UNCHANGED <<entry, now, copied, deathCertificate, oracleLoading, clipboardWrites,
                 timers, lastCall>>

\* copyToClipboard(trust.address), from the button shown with a trust: the
\* write is started.
CopyToClipboard ==
  /\ entry = "app"
  /\ trust # Null
  /\ clipboardWrites + Len(timers) < MaxPending
  /\ clipboardWrites' = clipboardWrites + 1
  /\ alertShown' = "none"
  /\ UNCHANGED <<entry, now, trust, copied, loading, deathCertificate, oracleLoading,
                 timers, lastCall>>

\* The promise of writeText is fulfilled: .then sets copied and starts the
\* timer.
ClipboardWritten ==
  /\ entry = "app"
  /\ clipboardWrites > 0
  /\ clipboardWrites' = clipboardWrites - 1
  /\ copied' = TRUE
  /\ timers' = Append(timers, now + CopiedSeconds)
  /\ UNCHANGED <<entry, now, trust, loading, deathCertificate, oracleLoading,
                 alertShown, lastCall>>

\* The promise of writeText is rejected: there is no handler for that.
ClipboardRejected ==
  /\ entry = "app"
  /\ clipboardWrites > 0
  /\ clipboardWrites' = clipboardWrites - 1
  /\ UNCHANGED <<entry, now, trust, copied, loading, deathCertificate, oracleLoading,
                 alertShown, timers, lastCall>>

\* The timer set first expires, its second having come: setCopied(false).
TimerFires ==
  /\ entry = "app"
  /\ timers # <<>>
  /\ Head(timers) <= now
  /\ timers' = Tail(timers)
  /\ copied' = FALSE
  /\ UNCHANGED <<entry, now, trust, loading, deathCertificate, oracleLoading,
                 alertShown, clipboardWrites, lastCall>>

\* issueOracleCertificate: without a trust an alert and nothing else; with
\* one, the certificate of a new oracle for the trust's address is stored,
\* and the catch block shows an alert and stores nothing.
IssueOracleCertificate ==
  /\ entry = "app"
  /\ IF trust = Null
     THEN /\ alertShown' = "noTrust"
          /\ UNCHANGED <<deathCertificate, oracleLoading>>
     ELSE \E attempt \in {issueOracleCertificateTry(trust, now)} :
            /\ IF attempt.threw
               THEN /\ alertShown' = "issueOracleCertificate"
                    /\ UNCHANGED deathCertificate
               ELSE /\ deathCertificate' = attempt.certificate
                    /\ alertShown' = "none"
            /\ oracleLoading' = FALSE
  /\ UNCHANGED <<entry, now, trust, copied, loading, clipboardWrites, timers, lastCall>>

\* Faulty variant of ResetCertificate: the button clears the trust as well.
ResetCertificateAndTrust ==
  /\ entry = "app"
  /\ deathCertificate # Null
  /\ deathCertificate' = Null
  /\ trust' = Null
  /\ alertShown' = "none"
  /\ UNCHANGED <<entry, now, copied, loading, oracleLoading, clipboardWrites,
                 timers, lastCall>>

\* The reset button, shown with a certificate: setDeathCertificate(null).
ResetCertificate ==
  /\ entry = "app"
  /\ deathCertificate # Null
  /\ deathCertificate' = Null
  /\ alertShown' = "none"
  /\ UNCHANGED <<entry, now, trust, copied, loading, oracleLoading, clipboardWrites,
                 timers, lastCall>>

---------------------------------------------------------------------------
(* A script calling the exports of utils/bitcoin.js and utils/oracle.js. *)

\* The arguments the script passes.
compressedHex(d) == Str(generateKeyPair(d).publicKey)
compressedBuffer(d) == Buf(pointFromScalar(bytes32(d)))
xOnlyBuffer(d) == Buf(Tail(pointFromScalar(bytes32(d))))
uncompressedBuffer(d) == Buf(<<4>> \o Tail(pointFromScalar(bytes32(d))) \o bytes32(d))

OwnerKeys ==
  {compressedHex(5),                               \* even y
   compressedBuffer(46000),                        \* odd y
   Str(toHex(xOnlyBuffer(5).buf)),                 \* 32 bytes in hex
   uncompressedBuffer(9),                          \* 65 bytes
   Str(toUpperCase(generateKeyPair(11).publicKey)),
   Str(toHex(SubSeq(bytes32(5), 1, 31))),          \* 31 bytes
   Buf(Zeros(32)),                                 \* x = 0 is on no curve point
   Str(<<"n","o","t","h","e","x">>)}
HeirKeys == {compressedHex(300), xOnlyBuffer(7), Str(toHex(Zeros(30)))}
OracleKeys == {compressedHex(40000), compressedBuffer(77)}
Hours == {1, 0, 24, -1, -400000}

SimpleKeys ==
  {compressedBuffer(5), compressedBuffer(46000), xOnlyBuffer(300), uncompressedBuffer(9),
   compressedHex(5),                               \* 66 characters, taken as 66 bytes
   Buf(SubSeq(bytes32(5), 1, 31)), Buf(Zeros(32)), Buf(bytes32(CurveOrder - 1))}

createTaprootTrustCall ==
  /\ entry = "script"
  /\ lastCall = NoCall
  /\ \E ownerPublicKey \in OwnerKeys, heirPublicKey \in HeirKeys,
        oraclePublicKey \in OracleKeys, timelockHours \in Hours :
       lastCall' = [fn |-> "createTaprootTrust",
                    args |-> [ownerPublicKey |-> ownerPublicKey,
                              heirPublicKey |-> heirPublicKey,
                              oraclePublicKey |-> oraclePublicKey,
                              timelockHours |-> timelockHours],
                    at |-> now,
                    previous |-> NoCall,
                    result |-> createTaprootTrust(ownerPublicKey, heirPublicKey,
                                                  oraclePublicKey, timelockHours, now)]
  /\ UNCHANGED <<entry, now, appVars>>

\* The script builds the trust a second time from the same keys, with the
\* same timelock or, the hour that may have passed taken off, with one hour
\* less.
createTaprootTrustAgain ==
  /\ entry = "script"
  /\ lastCall.fn = "createTaprootTrust"
  /\ lastCall.previous = NoCall
  /\ ~lastCall.result.threw
  /\ \E timelockHours \in {lastCall.args.timelockHours, lastCall.args.timelockHours - 1} :
       lastCall' = [fn |-> "createTaprootTrust",
                    args |-> [lastCall.args EXCEPT !.timelockHours = timelockHours],
                    at |-> now,
                    previous |-> lastCall,
                    result |-> createTaprootTrust(lastCall.args.ownerPublicKey,
                                                  lastCall.args.heirPublicKey,
                                                  lastCall.args.oraclePublicKey,
                                                  timelockHours, now)]
  /\ UNCHANGED <<entry, now, appVars>>

\* The script asks for the explanation of the trust it holds, the first time
\* and again; it keeps whether an earlier explanation said unlocked.
explainTaprootTrustCall ==
  /\ entry = "script"
  /\ \/ lastCall.fn = "createTaprootTrust" /\ lastCall.previous = NoCall /\ ~lastCall.result.threw
        /\ lastCall' = [fn |-> "explainTaprootTrust",
                        args |-> [trust |-> lastCall.result],
                        created |-> [at |-> lastCall.at,
                                     timelockHours |-> lastCall.args.timelockHours],
                        unlockedBefore |-> FALSE,
                        at |-> now,
                        result |-> explainTaprootTrust(lastCall.result, now)]
     \/ lastCall.fn = "explainTaprootTrust"
        /\ lastCall' = [lastCall EXCEPT
                          !.unlockedBefore =
                            @ \/ lastCall.result.spendingPaths.timelockPath.isUnlocked,
                          !.at = now,
                          !.result = explainTaprootTrust(lastCall.args.trust, now)]
  /\ UNCHANGED <<entry, now, appVars>>

\* A compressed key: 33 bytes, the first of them 2 or 3.
isCompressed(publicKey) ==
  IF publicKey.isBuffer THEN Len(publicKey.buf) = 33 /\ publicKey.buf[1] \in {2, 3}
  ELSE Len(publicKey.str) = 66 /\ publicKey.str[1] = "0" /\ publicKey.str[2] \in {"2", "3"}

\* The compressed key with the other parity prefix, 02 for 03 and 03 for 02.
otherParity(publicKey) ==
  IF publicKey.isBuffer THEN Buf(<<5 - publicKey.buf[1]>> \o Tail(publicKey.buf))
  ELSE Str([publicKey.str EXCEPT ![2] = IF @ = "2" THEN "3" ELSE "2"])

\* The script builds the trust a second time, one of the compressed keys
\* given with the other parity prefix.
createTaprootTrustOtherParity ==
  /\ entry = "script"
  /\ lastCall.fn = "createTaprootTrust"
  /\ lastCall.previous = NoCall
  /\ \E role \in {"ownerPublicKey", "heirPublicKey", "oraclePublicKey"} :
       /\ isCompressed(lastCall.args[role])
       /\ \E args \in {[lastCall.args EXCEPT ![role] = otherParity(@)]} :
            lastCall' = [fn |-> "createTaprootTrust",
                         args |-> args,
                         role |-> role,
                         at |-> now,
                         previous |-> lastCall,
                         result |-> createTaprootTrust(args.ownerPublicKey, args.heirPublicKey,
                                                       args.oraclePublicKey, args.timelockHours,
                                                       now)]
  /\ UNCHANGED <<entry, now, appVars>>

createSimpleTaprootAddressCall ==
  /\ entry = "script"
  /\ lastCall = NoCall
  /\ \E ownerPublicKey \in SimpleKeys :
       lastCall' = [fn |-> "createSimpleTaprootAddress",
                    args |-> [ownerPublicKey |-> ownerPublicKey],
                    at |-> now,
                    result |-> createSimpleTaprootAddress(ownerPublicKey)]
  /\ UNCHANGED <<entry, now, appVars>>

\* Addresses and other values the script did not get from this library.
tb == <<"t","b">>
segwitAddress(prefix, version, program, encodingConst) ==
  bech32Encode(prefix, <<version>> \o toWords(program), encodingConst)

GivenStrings ==
  {segwitAddress(tb, 1, bytes32(5), ENCODING_CONST_BECH32M),
   toUpperCase(segwitAddress(tb, 1, bytes32(5), ENCODING_CONST_BECH32M)),
   segwitAddress(<<"b","c">>, 1, bytes32(5), ENCODING_CONST_BECH32M),
   segwitAddress(tb, 0, Zeros(20), ENCODING_CONST_BECH32),
   segwitAddress(tb, 2, bytes32(5), ENCODING_CONST_BECH32M),
   segwitAddress(tb, 1, SubSeq(bytes32(5), 13, 32), ENCODING_CONST_BECH32M),
   segwitAddress(tb, 1, Zeros(1) \o bytes32(5), ENCODING_CONST_BECH32M),
   segwitAddress(tb, 1, bytes32(5), ENCODING_CONST_BECH32),
   segwitAddress(tb, 1, Zeros(32), ENCODING_CONST_BECH32M),
   segwitAddress(<<"t","b","1","p">>, 1, bytes32(5), ENCODING_CONST_BECH32M),
   <<"t","b","1","p">>,
   <<"h","e","l","l","o">>,
   <<>>}

GivenValues ==
  {JsString(x) : x \in GivenStrings}
    \cup {[kind |-> "null"], [kind |-> "undefined"], [kind |-> "number"], [kind |-> "object"]}

isValidTaprootAddressCall ==
  /\ entry = "script"
  /\ lastCall = NoCall
  /\ \E address \in GivenValues :
       lastCall' = [fn |-> "isValidTaprootAddress",
                    source |-> "given",
                    original |-> <<>>,
                    args |-> [address |-> address],
                    result |-> isValidTaprootAddress(address)]
  /\ UNCHANGED <<entry, now, appVars>>

\* The script validates the address it was just given by the library.
validateProducedAddress ==
  /\ entry = "script"
  /\ lastCall.fn \in {"createTaprootTrust", "createSimpleTaprootAddress"}
  /\ ~lastCall.result.threw
  /\ lastCall' = [fn |-> "isValidTaprootAddress",
                  source |-> lastCall.fn,
                  original |-> lastCall.result.address,
                  args |-> [address |-> JsString(lastCall.result.address)],
                  result |-> isValidTaprootAddress(JsString(lastCall.result.address))]
  /\ UNCHANGED <<entry, now, appVars>>

\* The script changes one character of the address it was just given and
\* validates the outcome.
ReplacementChars == {"q", "7", "1"}

validateCorruptedAddress ==
  /\ entry = "script"
  /\ lastCall.fn = "createSimpleTaprootAddress"
  /\ ~lastCall.result.threw
  /\ \E i \in 1..Len(lastCall.result.address), c \in ReplacementChars :
       /\ lastCall.result.address[i] # c
       /\ \E corrupted \in {[lastCall.result.address EXCEPT ![i] = c]} :
            lastCall' = [fn |-> "isValidTaprootAddress",
                         source |-> "corrupted",
                         original |-> lastCall.result.address,
                         args |-> [address |-> JsString(corrupted)],
                         result |-> isValidTaprootAddress(JsString(corrupted))]
  /\ UNCHANGED <<entry, now, appVars>>

\* The private keys generateKeyPair draws for the script's oracles.
OracleScalars == {7, 40000, 46336}

createMockOracleCall ==
  /\ entry = "script"
  /\ lastCall = NoCall
  /\ \E d \in OracleScalars :
       lastCall' = [fn |-> "createMockOracle",
                    args |-> [oracleKeys |-> generateKeyPair(d)],
                    result |-> createMockOracle(generateKeyPair(d))]
  /\ UNCHANGED <<entry, now, appVars>>

TrustIds ==
  {segwitAddress(tb, 1, bytes32(5), ENCODING_CONST_BECH32M),
   <<"t","r","u","s","t","-","1">>,
   <<"a",":","b">>,
   <<>>}
PersonNames == {DemoUser, <<"D","o","e",":"," ","J","o","h","n">>}

issueDeathCertificateCall ==
  /\ entry = "script"
  /\ lastCall.fn = "createMockOracle"
  /\ ~lastCall.result.threw
  /\ \E trustId \in TrustIds, personName \in PersonNames :
       lastCall' = [fn |-> "issueDeathCertificate",
                    oracle |-> oracleAfterIssue(lastCall.result),
                    constructed |-> lastCall.result,
                    earlier |-> <<>>,
                    args |-> [trustId |-> trustId, personName |-> personName],
                    at |-> now,
                    result |-> issueDeathCertificate(lastCall.result, trustId, personName, now)]
  /\ UNCHANGED <<entry, now, appVars>>

\* The trust ids of later certificates: two of the first ones, and two that
\* are close to the second of them.
LaterTrustIds ==
  {segwitAddress(tb, 1, bytes32(5), ENCODING_CONST_BECH32M),
   <<"t","r","u","s","t","-","1">>,
   <<"T","R","U","S","T","-","1">>,
   <<"u","S","u","s","t","-","1">>}

\* The same oracle issues another certificate, for the same person, after at
\* most MaxIssued - 1 others; the script keeps the earlier certificates, each
\* with the result verifyCertificate gave for it when it was issued.
issueDeathCertificateAgain ==
  /\ entry = "script"
  /\ lastCall.fn = "issueDeathCertificate"
  /\ ~lastCall.result.threw
  /\ Len(lastCall.earlier) < MaxIssued - 1
  /\ \E trustId \in LaterTrustIds :
       lastCall' = [fn |-> "issueDeathCertificate",
                    oracle |-> oracleAfterIssue(lastCall.oracle),
                    constructed |-> lastCall.constructed,
                    earlier |-> Append(lastCall.earlier,
                                       [certificate |-> lastCall.result,
                                        verified |-> verifyCertificate(lastCall.result)]),
                    args |-> [trustId |-> trustId, personName |-> lastCall.args.personName],
                    at |-> now,
                    result |-> issueDeathCertificate(lastCall.oracle, trustId,
                                                     lastCall.args.personName, now)]
  /\ UNCHANGED <<entry, now, appVars>>

\* The oracle verifies a certificate it issued before its last one.
verifyEarlierCertificate ==
  /\ entry = "script"
  /\ lastCall.fn = "issueDeathCertificate"
  /\ \E i \in DOMAIN lastCall.earlier :
       lastCall' = [fn |-> "verifyCertificate",
                    source |-> "earlier",
                    field |-> "none",
                    oracle |-> lastCall.oracle,
                    constructed |-> lastCall.constructed,
                    issued |-> lastCall.earlier[i].certificate,
                    verified |-> lastCall.earlier[i].verified,
                    issuedAfter |-> Len(lastCall.earlier) + 1 - i,
                    args |-> [certificate |-> lastCall.earlier[i].certificate],
                    result |-> verifyCertificate(lastCall.earlier[i].certificate)]
  /\ UNCHANGED <<entry, now, appVars>>

\* The oracle verifies the certificate it has just issued.
verifyIssuedCertificate ==
  /\ entry = "script"
  /\ lastCall.fn = "issueDeathCertificate"
  /\ ~lastCall.result.threw
  /\ lastCall' = [fn |-> "verifyCertificate",
                  source |-> "issued",
                  field |-> "none",
                  oracle |-> lastCall.oracle,
                  issued |-> lastCall.result,
                  args |-> [certificate |-> lastCall.result],
                  result |-> verifyCertificate(lastCall.result)]
  /\ UNCHANGED <<entry, now, appVars>>

\* Other values for a field that holds the hex string x: other hex digits,
\* the same digits written otherwise, fewer digits, and values that are no
\* strings.
otherDigit(c) == IF c = "0" THEN "1" ELSE "0"
Replacements(x) ==
  {JsString(toUpperCase(x)),
   JsString(x \o <<"z","z">>),
   JsString([x EXCEPT ![Len(x)] = otherDigit(x[Len(x)])]),
   JsString([x EXCEPT ![1] = otherDigit(x[1])]),
   JsString(SubSeq(x, 1, Len(x) - 2)),
   JsString(<<>>),
   [kind |-> "undefined"],
   [kind |-> "number"]} \ {JsString(x)}

\* The signature r || s of the hex string x with s replaced by order - s.
otherS(x) ==
  LET signature == fromHex(x)
  IN toHex(SubSeq(signature, 1, 32)
           \o bytes32(CurveOrder - beValue(SubSeq(signature, 33, 64))))

\* The oracle verifies an issued certificate in which the signature or the
\* messageHash was replaced by another value.
verifyTamperedCertificate ==
  /\ entry = "script"
  /\ lastCall.fn = "issueDeathCertificate"
  /\ ~lastCall.result.threw
  /\ \/ \E value \in Replacements(lastCall.result.signature.str)
                       \cup {JsString(otherS(lastCall.result.signature.str))} :
          lastCall' = [fn |-> "verifyCertificate",
                       source |-> "tampered",
                       field |-> "signature",
                       oracle |-> lastCall.oracle,
                       issued |-> lastCall.result,
                       args |-> [certificate |-> [lastCall.result EXCEPT !.signature = value]],
                       result |-> verifyCertificate([lastCall.result EXCEPT !.signature = value])]
     \/ \E value \in Replacements(lastCall.result.messageHash.str) :
          lastCall' = [fn |-> "verifyCertificate",
                       source |-> "tampered",
                       field |-> "messageHash",
                       oracle |-> lastCall.oracle,
                       issued |-> lastCall.result,
                       args |-> [certificate |-> [lastCall.result EXCEPT !.messageHash = value]],
                       result |-> verifyCertificate([lastCall.result EXCEPT !.messageHash = value])]
  /\ UNCHANGED <<entry, now, appVars>>

\* Values that are no certificates, and objects whose fields are missing or
\* malformed.
givenCertificate(messageHash, signature, oraclePublicKey) ==
  [kind |-> "object", messageHash |-> messageHash, signature |-> signature,
   oraclePublicKey |-> oraclePublicKey]

GivenCertificates ==
  {[kind |-> "null"], [kind |-> "undefined"], [kind |-> "number"], [kind |-> "string"],
   givenCertificate([kind |-> "undefined"], [kind |-> "undefined"], [kind |-> "undefined"]),
   givenCertificate(JsString(toHex(Zeros(32))), [kind |-> "undefined"],
                 JsString(generateKeyPair(7).publicKey)),
   givenCertificate(JsString(<<"x","y">>), JsString(<<"x","y">>), JsString(<<"x","y">>)),
   givenCertificate(JsString(toHex(Zeros(32))), JsString(toHex(Zeros(64))),
                 JsString(generateKeyPair(7).publicKey)),
   givenCertificate(JsString(toHex(Zeros(32))), JsString(toHex(bytes32(1) \o bytes32(1))),
                 JsString(toHex(<<5>> \o bytes32(7)))),
   givenCertificate(JsString(toHex(Zeros(32))), JsString(toHex(bytes32(1) \o bytes32(1))),
                 JsString(generateKeyPair(7).publicKey))}

\* Certificates that agree with certificate in messageHash, signature and
\* oraclePublicKey: one field of the others changed, all of them changed, and
\* all of them missing.
OtherText == <<"o","t","h","e","r">>
AlteredCertificates(certificate) ==
  {[certificate EXCEPT !.message = certificate.message \o <<"x">>],
   [certificate EXCEPT !.trustId = OtherText],
   [certificate EXCEPT !.personName = OtherText],
   [certificate EXCEPT !.timestamp = certificate.timestamp + 1],
   [certificate EXCEPT !.certificateId = OtherText],
   [certificate EXCEPT !.message = <<>>, !.trustId = <<>>, !.personName = <<>>,
                       !.timestamp = 0, !.issuedAt = <<>>, !.certificateId = <<>>],
   givenCertificate(certificate.messageHash, certificate.signature,
                    certificate.oraclePublicKey)}

\* The issued certificate, and the one with the last digit of its
\* messageHash changed.
BaseCertificates(certificate) ==
  {certificate,
   [certificate EXCEPT !.messageHash.str[64] = otherDigit(certificate.messageHash.str[64])]}

\* The oracle verifies a certificate made from one it issued by changing
\* fields other than messageHash, signature and oraclePublicKey.
verifyAlteredCertificate ==
  /\ entry = "script"
  /\ lastCall.fn = "issueDeathCertificate"
  /\ ~lastCall.result.threw
  /\ \E base \in BaseCertificates(lastCall.result) :
       \E altered \in AlteredCertificates(base) :
         lastCall' = [fn |-> "verifyCertificate",
                      source |-> "altered",
                      field |-> "none",
                      oracle |-> lastCall.oracle,
                      issued |-> base,
                      args |-> [certificate |-> altered],
                      result |-> verifyCertificate(altered)]
  /\ UNCHANGED <<entry, now, appVars>>

\* Another oracle, made from another key pair, verifies the certificate the
\* first oracle issued.
verifyForeignCertificate ==
  /\ entry = "script"
  /\ lastCall.fn = "issueDeathCertificate"
  /\ ~lastCall.result.threw
  /\ \E d \in OracleScalars :
       /\ generateKeyPair(d).publicKey # lastCall.oracle.publicKey
       /\ lastCall' = [fn |-> "verifyCertificate",
                      source |-> "foreign",
                      field |-> "none",
                      oracle |-> createMockOracle(generateKeyPair(d)),
                      issued |-> lastCall.result,
                      args |-> [certificate |-> lastCall.result],
                      result |-> verifyCertificate(lastCall.result)]
  /\ UNCHANGED <<entry, now, appVars>>

verifyCertificateCall ==
  /\ entry = "script"
  /\ lastCall.fn = "createMockOracle"
  /\ ~lastCall.result.threw
  /\ \E certificate \in GivenCertificates :
       lastCall' = [fn |-> "verifyCertificate",
                    source |-> "given",
                    field |-> "none",
                    oracle |-> lastCall.result,
                    issued |-> Null,
                    args |-> [certificate |-> certificate],
                    result |-> verifyCertificate(certificate)]
  /\ UNCHANGED <<entry, now, appVars>>

---------------------------------------------------------------------------

Next ==
  \/ Tick
  \/ HourPasses
  \/ GenerateTrust
  \/ CopyToClipboard
  \/ ClipboardWritten
  \/ ClipboardRejected
  \/ TimerFires
  \/ IssueOracleCertificate
  \/ ResetCertificate
  \/ createTaprootTrustCall
  \/ explainTaprootTrustCall
  \/ createSimpleTaprootAddressCall
  \/ isValidTaprootAddressCall
  \/ validateProducedAddress
  \/ validateCorruptedAddress
  \/ createMockOracleCall
  \/ issueDeathCertificateCall
  \/ verifyIssuedCertificate
  \/ verifyTamperedCertificate
  \/ verifyAlteredCertificate
  \/ verifyForeignCertificate
  \/ verifyCertificateCall

Spec == Init /\ [][Next]_vars

\* A script that builds a trust and, after a while, builds it again.
NextRebuild ==
  \/ Tick
  \/ HourPasses
  \/ createTaprootTrustCall
  \/ createTaprootTrustAgain

RebuildSpec == Init /\ [][NextRebuild]_vars

\* A script that builds a trust again from keys of the other parity.
NextParity ==
  \/ Tick
  \/ HourPasses
  \/ createTaprootTrustCall
  \/ createTaprootTrustOtherParity

ParitySpec == Init /\ [][NextParity]_vars

\* A script that has one oracle issue certificate after certificate.
NextOracle ==
  \/ Tick
  \/ createMockOracleCall
  \/ issueDeathCertificateCall
  \/ issueDeathCertificateAgain
  \/ verifyEarlierCertificate

OracleSpec == Init /\ [][NextOracle]_vars

---------------------------------------------------------------------------
(* Properties *)

tb1p == <<"t","b","1","p">>

\* The script has a result of createTaprootTrust or createSimpleTaprootAddress.
Produced ==
  /\ lastCall.fn \in {"createTaprootTrust", "createSimpleTaprootAddress"}
  /\ ~lastCall.result.threw

\* The script has a trust returned by createTaprootTrust.
TrustReturned == lastCall.fn = "createTaprootTrust" /\ ~lastCall.result.threw

\* C1: the address of every trust returned by createTaprootTrust and of
\* every result of createSimpleTaprootAddress decodes, on testnet, to witness
\* version 1 and a 32-byte program, and its output script is the returned
\* output.
AddressRoundTrip ==
  Produced =>
    /\ \E decoded \in {fromBech32(lastCall.result.address)} :
         /\ ~decoded.threw
         /\ decoded.prefix = network.bech32
         /\ decoded.version = 1
         /\ Len(decoded.data) = 32
         /\ toHex(<<OP_1, 32>> \o decoded.data) = lastCall.result.output
    /\ \E script \in {toOutputScript(lastCall.result.address)} :
         ~script.threw /\ toHex(script.value) = lastCall.result.output

\* A trust was returned for an owner key given as a Buffer with odd y.
AddressRoundTripWitness ==
  /\ TrustReturned
  /\ lastCall.args.ownerPublicKey.isBuffer
  /\ Len(lastCall.args.ownerPublicKey.buf) = 33
  /\ lastCall.args.ownerPublicKey.buf[1] = 3
  /\ Len(lastCall.result.output) = 68

\* C2: isValidTaprootAddress returns true for every address produced by
\* createTaprootTrust or createSimpleTaprootAddress, whatever the keys and
\* the timelock, and every produced address starts with "tb1p".
ProducedAddressesValid ==
  /\ Produced => startsWith(lastCall.result.address, tb1p)
  /\ (lastCall.fn = "isValidTaprootAddress"
      /\ lastCall.source \in {"createTaprootTrust", "createSimpleTaprootAddress"})
     => lastCall.result = [threw |-> FALSE, value |-> TRUE]

\* The address of a trust was found valid.
ProducedAddressesValidWitness ==
  /\ lastCall.fn = "isValidTaprootAddress"
  /\ lastCall.source = "createTaprootTrust"
  /\ lastCall.result.value
  /\ startsWith(lastCall.original, tb1p)

\* C3: isValidTaprootAddress returns false for every string that does not
\* start with "tb1p", for every valid address with one character changed,
\* and for every address that decodes to a witness version other than 1 or to
\* a program that is not 32 bytes; it returns true only for a string with the
\* prefix that decodes, to witness version 1.
InvalidAddressesRejected ==
  lastCall.fn = "isValidTaprootAddress" =>
    /\ (lastCall.args.address.kind = "string" /\ ~startsWith(lastCall.args.address.str, tb1p))
         => ~lastCall.result.value
    /\ lastCall.source = "corrupted" => ~lastCall.result.value
    /\ lastCall.args.address.kind = "string" =>
         \E decoded \in {fromBech32(lastCall.args.address.str)} :
           /\ (~decoded.threw /\ (decoded.version # 1 \/ Len(decoded.data) # 32))
                => ~lastCall.result.value
           /\ lastCall.result.value => (~decoded.threw /\ decoded.version = 1)
    /\ lastCall.result.value
         => (lastCall.args.address.kind = "string" /\ startsWith(lastCall.args.address.str, tb1p))

\* A valid address with one character after the prefix changed was rejected.
InvalidAddressesRejectedWitness ==
  /\ lastCall.fn = "isValidTaprootAddress"
  /\ lastCall.source = "corrupted"
  /\ startsWith(lastCall.args.address.str, tb1p)
  /\ lastCall.args.address.str # lastCall.original
  /\ ~lastCall.result.value

\* C4: isValidTaprootAddress and verifyCertificate never raise: for every
\* input they return a boolean, and false where their body throws.
ValidatorsNeverRaise ==
  /\ lastCall.fn = "isValidTaprootAddress" =>
       /\ ~lastCall.result.threw
       /\ lastCall.result.value \in BOOLEAN
       /\ isValidTaprootAddressTry(lastCall.args.address).threw => ~lastCall.result.value
  /\ lastCall.fn = "verifyCertificate" =>
       /\ ~lastCall.result.threw
       /\ lastCall.result.value \in BOOLEAN
       /\ verifyCertificateTry(lastCall.args.certificate).threw => ~lastCall.result.value

\* verifyCertificate returned false for an object without a signature.
ValidatorsNeverRaiseWitness ==
  /\ lastCall.fn = "verifyCertificate"
  /\ lastCall.args.certificate.kind = "object"
  /\ lastCall.args.certificate.signature.kind = "undefined"
  /\ lastCall.args.certificate.messageHash.kind = "string"
  /\ verifyCertificateTry(lastCall.args.certificate).threw
  /\ lastCall.result = [threw |-> FALSE, value |-> FALSE]

\* C5: an oracle made by createMockOracle from a key pair of generateKeyPair
\* verifies every certificate it issues, whatever trustId and personName.
IssuedCertificateVerifies ==
  (lastCall.fn = "verifyCertificate" /\ lastCall.source = "issued")
    => lastCall.result = [threw |-> FALSE, value |-> TRUE]

\* An oracle whose public key has odd y verified its certificate for a
\* trustId that holds the delimiter.
IssuedCertificateVerifiesWitness ==
  /\ lastCall.fn = "verifyCertificate"
  /\ lastCall.source = "issued"
  /\ lastCall.oracle.publicKey[2] = "3"
  /\ ":" \in Range(lastCall.issued.trustId)
  /\ lastCall.result.value

\* C6: verifyCertificate returns false for an issued certificate whose
\* signature or messageHash was replaced by another value.
TamperedCertificateRejected ==
  (lastCall.fn = "verifyCertificate" /\ lastCall.source = "tampered")
    => ~lastCall.result.value

\* C7: no trust is returned with a locktime below 500,000,000.
LocktimeAtLeastThreshold ==
  TrustReturned => lastCall.result.locktime >= 500000000

\* C8: issueDeathCertificate throws for a trustId or personName that holds
\* ":", and the message of an issued certificate splits on ":" into the four
\* fields DEATH_CERT, trustId, personName, timestamp.
DelimiterRejected ==
  lastCall.fn = "issueDeathCertificate" =>
    /\ (":" \in Range(lastCall.args.trustId) \/ ":" \in Range(lastCall.args.personName))
         => lastCall.result.threw
    /\ ~lastCall.result.threw
         => split(lastCall.result.message, ":")
              = <<DEATH_CERT, lastCall.args.trustId, lastCall.args.personName,
                  decimal(lastCall.at)>>

\* Every field of a returned trust is set.
FullyPopulated(trustInfo) ==
  /\ trustInfo.address # Undefined /\ startsWith(trustInfo.address, tb1p)
  /\ trustInfo.internalPubkey # Undefined /\ Len(trustInfo.internalPubkey) = 64
  /\ trustInfo.heirPubkey # Undefined /\ Len(trustInfo.heirPubkey) = 64
  /\ trustInfo.oraclePubkey # Undefined /\ Len(trustInfo.oraclePubkey) = 64
  /\ trustInfo.locktimeDate # Undefined
  /\ trustInfo.scripts.timelock # Undefined /\ Len(trustInfo.scripts.timelock) > 0
  /\ trustInfo.scripts.oracle # Undefined /\ Len(trustInfo.scripts.oracle) > 0
  /\ trustInfo.output # Undefined /\ Len(trustInfo.output) = 68
  /\ trustInfo.witness = <<>>

NoPartialTrust == lastCall.fn = "createTaprootTrust" => (lastCall.result.threw \/ FullyPopulated(lastCall.result))

\* A step that ends in the catch block of generateTrust keeps the stored
\* trust.
FailedGenerateKeepsTrust == alertShown' = "generateTrust" => trust' = trust

\* C9: createTaprootTrust throws or returns a record with every field set,
\* and a generateTrust that fails leaves the stored trust as it was.
TrustConstructionAtomic == []NoPartialTrust /\ [][FailedGenerateKeepsTrust]_vars

\* generateTrust has failed while a trust was stored, or createTaprootTrust
\* has thrown on a key that is no point of the curve.
TrustConstructionAtomicWitness ==
  \/ alertShown = "generateTrust" /\ trust # Null
  \/ /\ lastCall.fn = "createTaprootTrust"
     /\ lastCall.result.threw
     /\ lastCall.args.ownerPublicKey = Buf(Zeros(32))

\* The two leaves of a returned trust.
timelockLeafOf(trustInfo) ==
  [output |-> fromHex(trustInfo.scripts.timelock), version |-> LEAF_VERSION_TAPSCRIPT]
oracleLeafOf(trustInfo) ==
  [output |-> fromHex(trustInfo.scripts.oracle), version |-> LEAF_VERSION_TAPSCRIPT]

\* C10: the payment of the internal key with the script tree [oracle leaf,
\* timelock leaf] has the address of the trust, which was built with
\* [timelock leaf, oracle leaf], and the two trees have the same root.
LeafOrderIndependent ==
  TrustReturned =>
    /\ p2tr(fromHex(lastCall.result.internalPubkey),
            <<oracleLeafOf(lastCall.result), timelockLeafOf(lastCall.result)>>).address
         = lastCall.result.address
    /\ toHashTree(<<oracleLeafOf(lastCall.result), timelockLeafOf(lastCall.result)>>)
         = toHashTree(<<timelockLeafOf(lastCall.result), oracleLeafOf(lastCall.result)>>)

\* A trust was returned whose timelock leaf hashes above its oracle leaf, so
\* that the tree built in the order of the code is the one reordered.
LeafOrderIndependentWitness ==
  /\ TrustReturned
  /\ bufferCompare(tapleafHash(timelockLeafOf(lastCall.result)),
                   tapleafHash(oracleLeafOf(lastCall.result))) > 0

\* The script has built a trust twice, and both calls returned one.
TrustReturnedTwice ==
  /\ TrustReturned
  /\ lastCall.previous # NoCall

---------------------------------------------------------------------------
(* Spending the output of a returned trust *)

\* The control block that reveals leaf in the tree of the trust, sibling
\* being the other leaf.
controlBlockOf(trustInfo, leaf, sibling) ==
  <<LEAF_VERSION_TAPSCRIPT
      + tweakKey(fromHex(trustInfo.internalPubkey),
                 sortedBranchHash(tapleafHash(leaf), tapleafHash(sibling))).parity>>
    \o fromHex(trustInfo.internalPubkey) \o tapleafHash(sibling)

\* The signature for tx made with the private key of the x-only key p, for
\* the leaf executed (leafHash empty on the key path); no signature when p is
\* empty.
signatureBy(p, tx, output, leafHash) ==
  IF p = <<>> THEN <<>>
  ELSE schnorrSign(p, SignatureHashSchnorr(tx, fromHex(output), leafHash))

leafSignature(p, tx, trustInfo, leaf) ==
  signatureBy(p, tx, trustInfo.output, tapleafHash(leaf))

\* The keys that sign: heir, oracle, owner (the internal key), and nobody.
heirKeyOf(trustInfo) == fromHex(trustInfo.heirPubkey)
oracleKeyOf(trustInfo) == fromHex(trustInfo.oraclePubkey)
Signers(trustInfo) ==
  {heirKeyOf(trustInfo), oracleKeyOf(trustInfo), fromHex(trustInfo.internalPubkey), <<>>}

\* Spending transactions: lock times around the locktime of the trust and at
\* the start of the clock, with a final or a non-final sequence number.
SpendingTxs(locktime) ==
  {[nLockTime |-> n, finalSequence |-> f, outputs |-> 1] :
     n \in {m \in {0, locktime - 1, locktime, locktime + 1, ClockStart} : m >= 0},
     f \in BOOLEAN}

timelockSpend(trustInfo, p, tx) ==
  [path |-> "script", tx |-> tx,
   items |-> <<leafSignature(p, tx, trustInfo, timelockLeafOf(trustInfo))>>,
   script |-> timelockLeafOf(trustInfo).output,
   controlBlock |-> controlBlockOf(trustInfo, timelockLeafOf(trustInfo), oracleLeafOf(trustInfo))]

\* The oracle path with the signature of forOracle where the script checks
\* the oracle's key and of forHeir where it checks the heir's.
oracleSpend(trustInfo, forOracle, forHeir, tx) ==
  [path |-> "script", tx |-> tx,
   items |-> <<leafSignature(forHeir, tx, trustInfo, oracleLeafOf(trustInfo)),
               leafSignature(forOracle, tx, trustInfo, oracleLeafOf(trustInfo))>>,
   script |-> oracleLeafOf(trustInfo).output,
   controlBlock |-> controlBlockOf(trustInfo, oracleLeafOf(trustInfo), timelockLeafOf(trustInfo))]

keySpend(trustInfo, p, tx) ==
  [path |-> "key", tx |-> tx,
   items |-> <<signatureBy(p, tx, trustInfo.output, <<>>)>>,
   script |-> <<>>, controlBlock |-> <<>>]

\* A leaf the tree does not hold: the heir's key and OP_CHECKSIG alone.
forgedLeafOf(trustInfo) ==
  [output |-> compile(<<Push(heirKeyOf(trustInfo)), Op(OP_CHECKSIG)>>),
   version |-> LEAF_VERSION_TAPSCRIPT]

forgedSpend(trustInfo, tx) ==
  [path |-> "script", tx |-> tx,
   items |-> <<leafSignature(heirKeyOf(trustInfo), tx, trustInfo, forgedLeafOf(trustInfo))>>,
   script |-> forgedLeafOf(trustInfo).output,
   controlBlock |-> controlBlockOf(trustInfo, forgedLeafOf(trustInfo), oracleLeafOf(trustInfo))]

\* What a spender who holds the heir's key and no other can broadcast.
HeirOnlySpends(trustInfo) ==
  UNION {{keySpend(trustInfo, heirKeyOf(trustInfo), tx),
          timelockSpend(trustInfo, heirKeyOf(trustInfo), tx),
          oracleSpend(trustInfo, heirKeyOf(trustInfo), heirKeyOf(trustInfo), tx),
          oracleSpend(trustInfo, <<>>, heirKeyOf(trustInfo), tx),
          forgedSpend(trustInfo, tx)} : tx \in SpendingTxs(trustInfo.locktime)}

\* Blocks whose time is before the locktime.
BlocksBefore(locktime) ==
  {[time |-> t, height |-> 2500000] : t \in {u \in {locktime - 1, ClockStart} : u < locktime}}

\* The lock time of tx is in effect and has reached locktime.
LockTimeReached(tx, locktime) == ~tx.finalSequence /\ tx.nLockTime >= locktime

\* C12: the timelock script of a returned trust executes successfully exactly
\* for a transaction whose lock time has reached the locktime of the trust,
\* with the heir's signature; and in a block before the locktime no spend of
\* a spender who holds the heir's key alone is valid, on any path.
TimelockPathSound ==
  TrustReturned =>
    /\ \A tx \in SpendingTxs(lastCall.result.locktime), p \in Signers(lastCall.result) :
         ExecuteScript(timelockLeafOf(lastCall.result).output,
                       timelockSpend(lastCall.result, p, tx).items, tx,
                       fromHex(lastCall.result.output))
           <=> (LockTimeReached(tx, lastCall.result.locktime) /\ p = heirKeyOf(lastCall.result))
    /\ \A block \in BlocksBefore(lastCall.result.locktime),
          spend \in HeirOnlySpends(lastCall.result) :
         ~AcceptedInBlock(lastCall.result.output, spend, block)

\* The signatures of the signers for the message msg.
signaturesOver(trustInfo, msg) ==
  [p \in Signers(trustInfo) |-> IF p = <<>> THEN <<>> ELSE schnorrSign(p, msg)]

\* Transactions for the oracle path: without a lock time, and with the lock
\* time one second before the locktime of the trust.
OraclePathTxs(locktime) ==
  {[nLockTime |-> 0, finalSequence |-> TRUE, outputs |-> 1],
   [nLockTime |-> IF locktime > 0 THEN locktime - 1 ELSE 0, finalSequence |-> FALSE,
    outputs |-> 2]}

\* The oracle script chunks executes, for the message msg of tx, exactly with
\* the oracle's signature and the heir's, and with no single signature.
OracleScriptNeedsBoth(trustInfo, chunks, tx, msg, signatures) ==
  /\ \A forOracle \in Signers(trustInfo), forHeir \in Signers(trustInfo) :
       ExecuteTapscript(chunks, <<signatures[forHeir], signatures[forOracle]>>, tx, msg)
         <=> (forOracle = oracleKeyOf(trustInfo) /\ forHeir = heirKeyOf(trustInfo))
  /\ \A p \in Signers(trustInfo) : ~ExecuteTapscript(chunks, <<signatures[p]>>, tx, msg)

\* C13: the oracle script of a returned trust executes successfully exactly
\* with the oracle's signature and the heir's signature over the spending
\* transaction, whatever its lock time; one signature alone does not do; and
\* with both the spend is valid in a block at the time the trust was made.
OraclePathSound ==
  (TrustReturned /\ now = lastCall.at) =>
    \E output \in {fromHex(lastCall.result.output)}, leaf \in {oracleLeafOf(lastCall.result)} :
      \E chunks \in {decompile(leaf.output)}, leafHash \in {tapleafHash(leaf)} :
        /\ \A tx \in OraclePathTxs(lastCall.result.locktime) :
             \E msg \in {SignatureHashSchnorr(tx, output, leafHash)} :
               OracleScriptNeedsBoth(lastCall.result, chunks, tx, msg,
                                     signaturesOver(lastCall.result, msg))
        /\ AcceptedInBlock(lastCall.result.output,
                           oracleSpend(lastCall.result, oracleKeyOf(lastCall.result),
                                       heirKeyOf(lastCall.result),
                                       [nLockTime |-> 0, finalSequence |-> TRUE, outputs |-> 1]),
                           [time |-> lastCall.at, height |-> 2500000])

\* A trust with a timelock of 24 hours was returned whose oracle path is
\* valid with both signatures in a block at the time of its creation, and
\* fails with the heir's signature in both places.
OraclePathSoundWitness ==
  /\ TrustReturned
  /\ now = lastCall.at
  /\ lastCall.args.timelockHours = 24
  /\ \E tx \in {[nLockTime |-> 0, finalSequence |-> TRUE, outputs |-> 1]} :
       /\ AcceptedInBlock(lastCall.result.output,
                          oracleSpend(lastCall.result, oracleKeyOf(lastCall.result),
                                      heirKeyOf(lastCall.result), tx),
                          [time |-> lastCall.at, height |-> 2500000])
       /\ ~ExecuteScript(oracleLeafOf(lastCall.result).output,
                         oracleSpend(lastCall.result, heirKeyOf(lastCall.result),
                                     heirKeyOf(lastCall.result), tx).items, tx,
                         fromHex(lastCall.result.output))

---------------------------------------------------------------------------
(* Spending with the signature of a death certificate *)

\* The app holds a trust and a certificate issued for its address.
CertificateIssuedForTrust ==
  /\ entry = "app"
  /\ trust # Null
  /\ deathCertificate # Null
  /\ deathCertificate.trustId = trust.address

\* The witness stacks the app's next step describes for tx: the heir's own
\* signature over tx and the signature of the certificate, in either order.
certificateWitnesses(heirSignature, certificateSignature) ==
  {<<heirSignature, certificateSignature>>, <<certificateSignature, heirSignature>>}

\* The oracle script of the stored trust executes for tx with the heir's
\* signature and the signature of the certificate.
certificateSpends(script, spentOutput, heirXOnly, certificateSignature, tx) ==
  \E leafHash \in {tapleafHash([output |-> script, version |-> LEAF_VERSION_TAPSCRIPT])} :
    \E items \in certificateWitnesses(
                   schnorrSign(heirXOnly, SignatureHashSchnorr(tx, spentOutput, leafHash)),
                   certificateSignature) :
      ExecuteScript(script, items, tx, spentOutput)

\* C14: when the app holds a certificate issued for its trust, some
\* transaction spends the trust through the oracle script with the heir's
\* signature and the signature contained in the certificate.
CertificateAuthorizesOraclePath ==
  CertificateIssuedForTrust =>
    \E tx \in SpendingTxs(trust.locktime) \cup OraclePathTxs(trust.locktime) :
      certificateSpends(fromHex(trust.scripts.oracle),
                        toOutputScript(trust.address).value,
                        fromHex(trust.explanation.spendingPaths.oraclePath.heirPubkey),
                        fromHex(deathCertificate.signature.str), tx)

---------------------------------------------------------------------------
(* The oracle from construction through its issuances *)

\* Ready: the oracle holds the three fields of the key pair it was made
\* from, and the key pair of its WIF string, which signs with the private
\* key of the pair.
Ready(oracle, oracleKeys) ==
  /\ ~oracle.threw
  /\ oracle.publicKey = oracleKeys.publicKey
  /\ oracle.privateKey = oracleKeys.privateKey
  /\ oracle.wif = oracleKeys.wif
  /\ oracle.keyPair = wifToKeyPair(oracleKeys.wif)
  /\ toHex(oracle.keyPair.privateKey) = oracleKeys.privateKey

keyState(oracle) == <<oracle.publicKey, oracle.privateKey, oracle.wif, oracle.keyPair>>

\* C15: construction from a key pair leaves the oracle Ready; after every
\* issuance the oracle's publicKey, privateKey, wif and keyPair are those it
\* was constructed with; and every certificate issued before the last one
\* gets from verifyCertificate the result it got when it was issued.
OracleStateMachine ==
  /\ lastCall.fn = "createMockOracle" => Ready(lastCall.result, lastCall.args.oracleKeys)
  /\ lastCall.fn = "issueDeathCertificate" =>
       /\ keyState(lastCall.oracle) = keyState(lastCall.constructed)
       /\ \A i \in DOMAIN lastCall.earlier :
            verifyCertificate(lastCall.earlier[i].certificate) = lastCall.earlier[i].verified
  /\ lastCall.fn = "verifyCertificate" =>
       /\ keyState(lastCall.oracle) = keyState(lastCall.constructed)
       /\ lastCall.result = lastCall.verified

\* The first of three certificates, issued a second before the third and for
\* another trust, is verified after the third was issued, and verifies.
OracleStateMachineWitness ==
  /\ lastCall.fn = "verifyCertificate"
  /\ lastCall.issuedAfter = MaxIssued - 1
  /\ lastCall.issued.timestamp < now
  /\ lastCall.result.value
  /\ keyState(lastCall.oracle) = keyState(lastCall.constructed)

---------------------------------------------------------------------------
(* The identifier of a certificate *)

\* The certificates at hand: the one the script's last call issued, and the
\* one the app holds.
IssuedCertificates ==
  (IF lastCall.fn = "issueDeathCertificate" /\ ~lastCall.result.threw
   THEN {lastCall.result} ELSE {})
  \cup (IF deathCertificate # Null THEN {deathCertificate} ELSE {})

CERT == <<"C","E","R","T","-">>

\* C16, as stated: certificateId is "CERT-", the uppercase hexadecimal
\* encoding of the first 4 bytes of trustId, "-", and the uppercase
\* hexadecimal encoding of the timestamp.
CertificateIdOfTrustIdBytes ==
  \A certificate \in IssuedCertificates :
    certificate.certificateId
      = CERT \o toUpperCase(toHex(subarray(utf8(certificate.trustId), 0, 4))) \o <<"-">>
        \o toUpperCase(toStringRadix(certificate.timestamp, 16))

\* C16, amended: certificateId is "CERT-", the first 8 characters of trustId
\* in uppercase (all of trustId when it is shorter), "-", and the uppercase
\* hexadecimal encoding of the timestamp.
CertificateIdOfTrustIdPrefix ==
  \A certificate \in IssuedCertificates :
    certificate.certificateId
      = CERT \o toUpperCase(substring0(certificate.trustId, 8)) \o <<"-">>
        \o toUpperCase(toStringRadix(certificate.timestamp, 16))

\* A certificate for an address was issued: its identifier holds the first 8
\* characters of the address in uppercase, TB1P and four more, not the
\* hexadecimal digits of its first 4 bytes.
CertificateIdOfTrustIdPrefixWitness ==
  \E certificate \in IssuedCertificates :
    /\ Len(certificate.trustId) > 8
    /\ startsWith(certificate.trustId, tb1p)
    /\ SubSeq(certificate.certificateId, 1, 9) = CERT \o <<"T","B","1","P">>
    /\ SubSeq(certificate.certificateId, 6, 13)
         # toUpperCase(toHex(subarray(utf8(certificate.trustId), 0, 4)))
    /\ SubSeq(certificate.certificateId, 6, 13) # SubSeq(certificate.trustId, 1, 8)

---------------------------------------------------------------------------
(* The keys of a trust are x-only *)

\* The bytes of a key argument: the Buffer, or the bytes its hex string
\* holds.
bytesOfKey(publicKey) == IF publicKey.isBuffer THEN publicKey.buf ELSE fromHex(publicKey.str)

\* The key arguments of the script's call of createTaprootTrust.
keyArguments == {lastCall.args.ownerPublicKey, lastCall.args.heirPublicKey,
                 lastCall.args.oraclePublicKey}

\* Bytes 1..32 of a key of 33 or 65 bytes, a key of 32 bytes as it is.
withoutPrefix(key) == IF Len(key) \in {33, 65} THEN SubSeq(key, 2, 33) ELSE key

\* C17: a call of createTaprootTrust with a key that has not 32, 33 or 65
\* bytes raises and returns no trust; in a returned trust internalPubkey,
\* heirPubkey and oraclePubkey are the arguments without their prefix byte,
\* 32 bytes each, and these are the keys the two scripts push.
KeysAreXOnly ==
  lastCall.fn = "createTaprootTrust" =>
    /\ (\E publicKey \in keyArguments : Len(bytesOfKey(publicKey)) \notin {32, 33, 65})
         => lastCall.result = NoTrust
    /\ ~lastCall.result.threw =>
         /\ fromHex(lastCall.result.internalPubkey)
              = withoutPrefix(bytesOfKey(lastCall.args.ownerPublicKey))
         /\ fromHex(lastCall.result.heirPubkey)
              = withoutPrefix(bytesOfKey(lastCall.args.heirPublicKey))
         /\ fromHex(lastCall.result.oraclePubkey)
              = withoutPrefix(bytesOfKey(lastCall.args.oraclePublicKey))
         /\ \A key \in {lastCall.result.internalPubkey, lastCall.result.heirPubkey,
                        lastCall.result.oraclePubkey} :
              Len(key) = 64 /\ Len(fromHex(key)) = 32
         /\ decompile(fromHex(lastCall.result.scripts.timelock))[4]
              = Push(withoutPrefix(bytesOfKey(lastCall.args.heirPublicKey)))
         /\ decompile(fromHex(lastCall.result.scripts.oracle))[1]
              = Push(withoutPrefix(bytesOfKey(lastCall.args.oraclePublicKey)))
         /\ decompile(fromHex(lastCall.result.scripts.oracle))[3]
              = Push(withoutPrefix(bytesOfKey(lastCall.args.heirPublicKey)))

\* A trust was returned for an owner's key of 65 bytes, an heir's key of 32
\* bytes and an oracle's key of 33 bytes.
KeysAreXOnlyWitness ==
  /\ TrustReturned
  /\ Len(bytesOfKey(lastCall.args.ownerPublicKey)) = 65
  /\ Len(bytesOfKey(lastCall.args.heirPublicKey)) = 32
  /\ Len(bytesOfKey(lastCall.args.oraclePublicKey)) = 33
  /\ Len(fromHex(lastCall.result.internalPubkey)) = 32
  /\ fromHex(lastCall.result.oraclePubkey) = Tail(bytesOfKey(lastCall.args.oraclePublicKey))

\* A call with a key of 31 bytes raised.
KeyLengthRaisedWitness ==
  /\ lastCall.fn = "createTaprootTrust"
  /\ Len(bytesOfKey(lastCall.args.ownerPublicKey)) = 31
  /\ lastCall.result.threw

---------------------------------------------------------------------------
(* What verifyCertificate reads *)

\* The three fields verifyCertificate reads.
verifiedFields(certificate) ==
  <<certificate.messageHash, certificate.signature, certificate.oraclePublicKey>>

\* C18: a certificate that agrees with another in messageHash, signature and
\* oraclePublicKey gets from verifyCertificate the result the other gets,
\* whatever its message, trustId, personName, timestamp and certificateId
\* are, and whether it has them at all.
VerifyReadsThreeFields ==
  (lastCall.fn = "verifyCertificate" /\ lastCall.source = "altered") =>
    /\ verifiedFields(lastCall.args.certificate) = verifiedFields(lastCall.issued)
    /\ lastCall.args.certificate # lastCall.issued
    /\ lastCall.result = verifyCertificate(lastCall.issued)
    /\ lastCall.result.value <=> lastCall.issued.messageHash = JsString(_sha256(lastCall.issued.message))

\* An issued certificate whose message was changed, so that messageHash is
\* no longer the hash of the message, was verified, and verifies.
VerifyReadsThreeFieldsWitness ==
  /\ lastCall.fn = "verifyCertificate"
  /\ lastCall.source = "altered"
  /\ "message" \in DOMAIN lastCall.args.certificate
  /\ lastCall.args.certificate.message # lastCall.issued.message
  /\ lastCall.args.certificate.messageHash
       # JsString(_sha256(lastCall.args.certificate.message))
  /\ lastCall.result.value

---------------------------------------------------------------------------
(* The message hash *)

\* h * 31 + c wrapped to 32 bits, h given as its two 16-bit halves: the low
\* half of the product with its carry into the high half.
times31Plus(h, c) ==
  <<(31 * h[1] + (31 * h[2] + c) \div 65536) % 65536, (31 * h[2] + c) % 65536>>

\* The rolling value of the characters lo..hi of message, from h on.
RECURSIVE rolling(_, _, _, _)
rolling(message, lo, hi, h) ==
  IF lo > hi THEN h
  ELSE IF lo = hi THEN times31Plus(h, charCode(message[lo]))
  ELSE LET firstHalf == rolling(message, lo, (lo + hi) \div 2, h)
       IN IF firstHalf[1] < 0 THEN firstHalf
          ELSE rolling(message, ((lo + hi) \div 2) + 1, hi, firstHalf)

\* The magnitude of the signed 32-bit integer with the halves h, as the two
\* halves of a number up to 2^31.
magnitude(h) ==
  IF h[1] < 32768 THEN h
  ELSE IF h[2] = 0 THEN <<65536 - h[1], 0>>
  ELSE <<65535 - h[1], 65536 - h[2]>>

\* The number a string of 8 hexadecimal digits encodes, as two halves.
halvesOfHex(digits) == <<beValue(fromHex(SubSeq(digits, 1, 4))), beValue(fromHex(SubSeq(digits, 5, 8)))>>

---------------------------------------------------------------------------
(* Locktime and the unlocked flag *)

\* C20: the locktime of a returned trust is the second of its creation plus
\* timelockHours * 3600; an explanation says unlocked exactly when it is made
\* at or after the locktime; made at the second of creation of a trust with
\* timelockHours >= 1 it says locked; and after an explanation that said
\* unlocked every later one says unlocked.  The trust of the app, made with
\* one hour, is stored with an explanation that says locked.
UnlockedFromLocktimeOn ==
  /\ TrustReturned =>
       lastCall.result.locktime = lastCall.at + lastCall.args.timelockHours * 3600
  /\ lastCall.fn = "explainTaprootTrust" =>
       /\ lastCall.args.trust.locktime
            = lastCall.created.at + lastCall.created.timelockHours * 3600
       /\ lastCall.result.spendingPaths.timelockPath.isUnlocked
            <=> lastCall.at >= lastCall.args.trust.locktime
       /\ (lastCall.created.timelockHours >= 1 /\ lastCall.at = lastCall.created.at)
            => ~lastCall.result.spendingPaths.timelockPath.isUnlocked
       /\ lastCall.unlockedBefore => lastCall.result.spendingPaths.timelockPath.isUnlocked
  /\ trust # Null =>
       /\ trust.createdAt = toLocaleString(trust.locktime - 3600)
       /\ ~trust.explanation.spendingPaths.timelockPath.isUnlocked

\* A trust with a timelock of one hour, explained as locked at the second of
\* its creation, is explained as unlocked at the second of its locktime, and
\* again a second later.
UnlockedFromLocktimeOnWitness ==
  /\ lastCall.fn = "explainTaprootTrust"
  /\ lastCall.created.timelockHours = 1
  /\ lastCall.unlockedBefore
  /\ lastCall.at = lastCall.args.trust.locktime + 1
  /\ lastCall.result.spendingPaths.timelockPath.isUnlocked
  /\ ~explainTaprootTrust(lastCall.args.trust, lastCall.created.at).spendingPaths.timelockPath.isUnlocked

---------------------------------------------------------------------------
(* The certificate on display and the trust on display *)

\* The certificate section is rendered: it stands inside trust && (...) and
\* deathCertificate && (...).
CertificateDisplayed == entry = "app" /\ trust # Null /\ deathCertificate # Null

\* C21: a displayed death certificate belongs to the displayed trust: its
\* trustId is the address of the trust and its oraclePublicKey the public key
\* of the trust's oracle.
DisplayedCertificateOfDisplayedTrust ==
  CertificateDisplayed =>
    /\ deathCertificate.trustId = trust.address
    /\ deathCertificate.oraclePublicKey = JsString(trust.oracle.publicKey)

---------------------------------------------------------------------------
(* Whose certificates an oracle accepts *)

\* The signature of certificate is one of the key pair of oracle over the
\* messageHash of certificate.
SignedBy(oracle, certificate) ==
  /\ certificate.kind = "object"
  /\ certificate.messageHash.kind = "string"
  /\ certificate.signature.kind = "string"
  /\ eccVerify(fromHex(certificate.messageHash.str), oracle.keyPair.publicKey,
               fromHex(certificate.signature.str)).value

\* C22: verifyCertificate called on an oracle returns true only for a
\* certificate whose signature was made with the private key of that oracle;
\* the certificate of another oracle, which carries the other oracle's public
\* key, is rejected.
OnlyOwnCertificatesVerify ==
  lastCall.fn = "verifyCertificate" =>
    /\ lastCall.result.value => SignedBy(lastCall.oracle, lastCall.args.certificate)
    /\ lastCall.source = "foreign" => ~lastCall.result.value

---------------------------------------------------------------------------
(* Identifiers and hashes of different certificates *)

\* The certificates one oracle has issued to the script so far.
IssuedSoFar ==
  IF lastCall.fn = "issueDeathCertificate" /\ ~lastCall.result.threw
  THEN {lastCall.earlier[i].certificate : i \in DOMAIN lastCall.earlier} \cup {lastCall.result}
  ELSE {}

\* C23: two issued certificates that differ in trustId or in timestamp have
\* different certificateIds, and two with different messages have different
\* messageHashes.
CertificatesDistinguished ==
  \A first \in IssuedSoFar, second \in IssuedSoFar :
    /\ (first.trustId # second.trustId \/ first.timestamp # second.timestamp)
         => first.certificateId # second.certificateId
    /\ first.message # second.message => first.messageHash # second.messageHash

---------------------------------------------------------------------------
(* The parity prefix of a compressed key *)

\* The script has built a trust from keys and again from the same keys, one
\* of them with the other parity prefix.
BuiltWithOtherParity ==
  /\ lastCall.fn = "createTaprootTrust"
  /\ lastCall.previous # NoCall
  /\ lastCall.args[lastCall.role] # lastCall.previous.args[lastCall.role]
  /\ Tail(bytesOfKey(lastCall.args[lastCall.role]))
       = Tail(bytesOfKey(lastCall.previous.args[lastCall.role]))
  /\ {bytesOfKey(lastCall.args[lastCall.role])[1],
      bytesOfKey(lastCall.previous.args[lastCall.role])[1]} = {2, 3}

\* C24: the compressed keys 02||x and 03||x normalize to the same x-only
\* key x; a trust built with one in place of the other, as owner, heir or
\* oracle key, has the same keys and, the locktime being the same, the same
\* scripts, output and address, or is refused as the other is.
ParityDiscarded ==
  BuiltWithOtherParity =>
    /\ toXOnlyPublicKey(lastCall.args[lastCall.role])
         = toXOnlyPublicKey(lastCall.previous.args[lastCall.role])
    /\ toXOnlyPublicKey(lastCall.args[lastCall.role]).value
         = Tail(bytesOfKey(lastCall.args[lastCall.role]))
    /\ lastCall.result.threw = lastCall.previous.result.threw
    /\ ~lastCall.result.threw =>
         /\ lastCall.result.internalPubkey = lastCall.previous.result.internalPubkey
         /\ lastCall.result.heirPubkey = lastCall.previous.result.heirPubkey
         /\ lastCall.result.oraclePubkey = lastCall.previous.result.oraclePubkey
         /\ lastCall.result.locktime = lastCall.previous.result.locktime =>
              /\ lastCall.result.scripts = lastCall.previous.result.scripts
              /\ lastCall.result.address = lastCall.previous.result.address
              /\ lastCall.result.output = lastCall.previous.result.output

\* A trust was returned for the heir's key 02||x and, in the same second,
\* for 03||x in its place: the same address.
ParityDiscardedWitness ==
  /\ BuiltWithOtherParity
  /\ lastCall.role = "heirPublicKey"
  /\ bytesOfKey(lastCall.previous.args.heirPublicKey)[1] = 2
  /\ bytesOfKey(lastCall.args.heirPublicKey)[1] = 3
  /\ ~lastCall.result.threw
  /\ lastCall.at = lastCall.previous.at
  /\ lastCall.result.address = lastCall.previous.result.address

---------------------------------------------------------------------------
(* The copied indicator *)

\* C25: copied is true during the 2 seconds that follow every successful
\* copy, that is while the timer of that copy is pending, whether or not
\* the timer of an earlier copy is pending too; and it is false again when
\* no timer is pending.
CopiedForTwoSeconds ==
  /\ \A i \in DOMAIN timers : now < timers[i] => copied
  /\ timers = <<>> => ~copied

---------------------------------------------------------------------------
(* A certificate needs a trust *)

\* The five values of useState.
reactState == <<trust, copied, loading, deathCertificate, oracleLoading>>

\* C26: the app holds a death certificate only with a trust;
\* issueOracleCertificate without a trust, which ends in the alert that asks
\* for one, changes no state, deathCertificate staying null and oracleLoading
\* false; and no operation puts null in place of a trust.
CertificateOnlyWithTrust ==
  /\ [](deathCertificate # Null => trust # Null)
  /\ [][alertShown' = "noTrust" =>
          /\ trust = Null
          /\ reactState' = reactState
          /\ deathCertificate' = Null
          /\ oracleLoading' = FALSE]_vars
  /\ [][trust # Null => trust' # Null]_vars

\* issueOracleCertificate has run without a trust and shown its alert, and
\* the app holds neither trust nor certificate.
CertificateOnlyWithTrustWitness ==
  /\ entry = "app"
  /\ alertShown = "noTrust"
  /\ trust = Null
  /\ deathCertificate = Null
  /\ ~oracleLoading

\* The app holds a trust made a second ago and a certificate issued for it.
CertificateWithTrustWitness ==
  /\ CertificateDisplayed
  /\ deathCertificate.trustId = trust.address
  /\ deathCertificate.timestamp > ClockStart

---------------------------------------------------------------------------
(* Hours and minutes until the locktime *)

\* The text of the timelock path for h hours and m minutes.
descriptionOf(h, m) ==
  HeirCanSpendAfter \o decimal(h) \o <<"h", " ">> \o decimal(m) \o <<"m">>

\* The description shows whole hours h and minutes m, 0 <= m <= 59, with
\* h * 3600 + m * 60 <= d < h * 3600 + m * 60 + 60; the hours of such a pair
\* are the whole hours in d.
Decomposes(description, d) ==
  \E h \in {d \div 3600}, m \in 0..59 :
    /\ description = descriptionOf(h, m)
    /\ h * 3600 + m * 60 <= d
    /\ d < h * 3600 + m * 60 + 60

\* C27: the description of the timelock path in every explanation, made
\* before or after the locktime, shows the remaining time d = locktime - now
\* in whole hours and minutes between 0 and 59 that are within a minute
\* below d.
RemainingTimeDecomposed ==
  /\ lastCall.fn = "explainTaprootTrust" =>
       Decomposes(lastCall.result.spendingPaths.timelockPath.description,
                  lastCall.args.trust.locktime - lastCall.at)
  /\ trust # Null =>
       Decomposes(trust.explanation.spendingPaths.timelockPath.description, 3600)

=============================================================================
